---- MODULE Spec2Model ----
(***************************************************************************)
(* A model of the QuickFind search-and-ranking engine:                     *)
(*   - the line scanner of SearchService (regular-expression scan with     *)
(*     literal fallback), searchInFile / searchInFolder / searchWithQuery; *)
(*   - the FuzzyMatcher ranker and FileSearchService.searchFiles;          *)
(*   - the text-search panel (host side and webview script).               *)
(* Strings are sequences of one-character strings.  Positions inside a     *)
(* line are 0-based as in JavaScript; line[i + 1] is the character at      *)
(* JavaScript index i.                                                     *)
(***************************************************************************)
EXTENDS Integers, Sequences, FiniteSets, TLC

(***************************************************************************)
(* Bounds of the model.                                                    *)
(***************************************************************************)
\* longest file content (characters, newlines included) drawn in ScanInit
MaxContentLen == 3
\* longest pattern drawn in ScanInit
MaxPatLen == 2
\* matches recorded per file before the scan of the file stops (100 in the
\* source, scaled to the contents the model draws)
PerFileCap == 2
\* files read concurrently by one folder search (10 in the source, scaled)
BatchSize == 2
\* most files under the search root in FolderInit
MaxFiles == 3
\* longest file content drawn in FolderInit
MaxFolderContentLen == 4
\* longest query typed into the panel in PanelSpec
MaxQueryLen == 3
\* most handleSearch calls of one panel in PanelSpec
MaxSearches == 3
\* most messages from the webview not yet delivered in PanelSpec
MaxQueue == 2
\* most candidates handed to the fuzzy panel in RankSpec
MaxCandidates == 3
\* greatest line number of a candidate in RankSpec
MaxLine == 2
\* most files walkDirectory finds in RankSpec
MaxWalked == 3
\* the length of the longest line text handed to the ranker
MaxTextLen == 348
\* the limit the panel sends with the results of a file search (100 in the
\* source, the per-file cap)
FileDisplayLimit == 2
\* the limit the panel sends with the results of a folder search (1000 in
\* the source, the default of maxResults)
FolderDisplayLimit == 3
\* INITIAL_BATCH_SIZE of the webview (50 in the source, scaled)
InitialBatchSize == 2
\* HORIZONTAL_CONTEXT_SIZE and VERTICAL_CONTEXT_SIZE of SearchService (10 and
\* 60 in the source, scaled)
HorizontalContextSize == 1
VerticalContextSize == 2
\* the contextSize setting the file search reads (5 by default, scaled)
FileContextSize == 1
\* most lines of a file whose context is loaded
MaxContextLines == 5
\* most calls of loadContextForResult that read the file in LoadSpec
MaxLoads == 3
\* most walks of the folder of a file search in RankSpec
MaxWalks == 3
\* the length of the longest of the short lines of a .gitignore in IgnoreSpec
MaxIgnoreLineLen == 1
\* most lines of a .gitignore in IgnoreSpec
MaxIgnoreLines == 2
\* SearchService.defaultOptions.maxDepth (8 in the source, scaled)
maxDepth == 2
\* most searches of a browsed panel in BrowseSpec
MaxBrowseSearches == 2
\* MAX_HISTORY_SIZE of the webview (50 in the source, scaled)
MaxHistorySize == 2
\* the length of the longest query added to the history in HistorySpec
MaxHistoryQueryLen == 2
\* the longest query of the candidates that hold it whole or all but whole
MaxExactQueryLen == 13
\* the characters before a query held whole at the end of a long line
ExactPad == 32
\* the searches the history navigation may request
MaxNavSearches == 4
\* LOAD_MORE_BATCH_SIZE of the webview (25 in the source, scaled)
LoadMoreBatchSize == 2
\* ArrowDown shows more results when the selection comes within this many
\* results of the last one shown (5 in the source, scaled)
AutoLoadMargin == 0

(***************************************************************************)
(* Characters and strings.                                                 *)
(***************************************************************************)
NL == "\n"
\* the characters a file content is made of
ContentChars == {"a", "A", " ", "[", NL}
\* the characters a pattern is made of; there is no "]", so every "["
\* opens a character class that is never closed
PatChars == {"a", "A", "[", "*", "|"}

RECURSIVE Strings(_, _)
Strings(chars, n) ==
  IF n = 0 THEN {<<>>}
  ELSE LET shorter == Strings(chars, n - 1)
       IN  shorter \cup {Append(s, c) : s \in {t \in shorter : Len(t) = n - 1}, c \in chars}

\* String.prototype.toLowerCase, on one character
LowerChar(c) == IF c = "A" THEN "a" ELSE c

\* String.prototype.toLowerCase
ToLowerCase(s) == [i \in 1..Len(s) |-> LowerChar(s[i])]

IsWhitespace(c) == c \in {" ", NL}

\* \w of a regular expression: letters (digits and "_" are not in the alphabet)
IsWordChar(c) == c \in {"a", "A", "b", "c"}

RECURSIVE TrimStart(_)
TrimStart(s) ==
  IF s # <<>> /\ IsWhitespace(Head(s)) THEN TrimStart(Tail(s)) ELSE s

RECURSIVE TrimEnd(_)
TrimEnd(s) ==
  IF s # <<>> /\ IsWhitespace(s[Len(s)]) THEN TrimEnd(SubSeq(s, 1, Len(s) - 1)) ELSE s

\* String.prototype.trim
Trim(s) == TrimEnd(TrimStart(s))

\* content.split("\n"): the lines of a content, at least one
RECURSIVE SplitLines(_, _, _)
SplitLines(s, i, cur) ==
  IF i > Len(s) THEN <<cur>>
  ELSE IF s[i] = NL THEN <<cur>> \o SplitLines(s, i + 1, <<>>)
  ELSE SplitLines(s, i + 1, Append(cur, s[i]))

Split(content) == SplitLines(content, 1, <<>>)

\* String.prototype.indexOf(needle, from): 0-based index or -1
IndexOf(hay, needle, from) ==
  LET hits == {i \in from..(Len(hay) - Len(needle)) :
                 SubSeq(hay, i + 1, i + Len(needle)) = needle}
  IN  IF hits = {} THEN -1 ELSE CHOOSE i \in hits : \A j \in hits : i <= j

(***************************************************************************)
(* Regular expressions: new RegExp(source, flags) and RegExp.prototype.exec *)
(* on the pattern alphabet.  A source is a sequence of tokens: the pattern *)
(* characters and the assertion \b that the whole-word option adds.        *)
(***************************************************************************)
WordBoundary == "\\b"

\* new RegExp(source) does not throw.  It throws on an unterminated
\* character class and on a quantifier with nothing to repeat (at the start
\* of an alternative, after another quantifier, after an assertion).
RegexCompiles(src) ==
  /\ \A i \in 1..Len(src) : src[i] # "["
  /\ \A i \in 1..Len(src) :
       src[i] = "*" => (i > 1 /\ src[i - 1] \notin {"*", "|", WordBoundary})

\* the alternatives of a source: its token runs between "|"
RECURSIVE SplitAlternatives(_, _, _)
SplitAlternatives(src, i, cur) ==
  IF i > Len(src) THEN <<cur>>
  ELSE IF src[i] = "|" THEN <<cur>> \o SplitAlternatives(src, i + 1, <<>>)
  ELSE SplitAlternatives(src, i + 1, Append(cur, src[i]))

\* the terms of one alternative: each atom with its quantifier
RECURSIVE Terms(_, _)
Terms(alt, i) ==
  IF i > Len(alt) THEN <<>>
  ELSE IF i < Len(alt) /\ alt[i + 1] = "*"
       THEN <<[atom |-> alt[i], star |-> TRUE]>> \o Terms(alt, i + 2)
       ELSE <<[atom |-> alt[i], star |-> FALSE]>> \o Terms(alt, i + 1)

\* a compiled regular expression: its alternatives, each a sequence of terms
Compile(src) ==
  LET alts == SplitAlternatives(src, 1, <<>>)
  IN  [k \in 1..Len(alts) |-> Terms(alts[k], 1)]

\* \b holds at pos: exactly one of the characters around pos is a word character
AtWordBoundary(line, pos) ==
  LET before == pos > 0 /\ IsWordChar(line[pos])
      after == pos < Len(line) /\ IsWordChar(line[pos + 1])
  IN  before # after

\* the character at pos matches atom c (flag i: compared case-insensitively)
CharMatches(line, pos, c, ignoreCase) ==
  /\ pos < Len(line)
  /\ IF ignoreCase THEN LowerChar(line[pos + 1]) = LowerChar(c) ELSE line[pos + 1] = c

\* the number of consecutive characters from pos that match atom c
RECURSIVE RunLength(_, _, _, _)
RunLength(line, pos, c, ignoreCase) ==
  IF CharMatches(line, pos, c, ignoreCase)
  THEN 1 + RunLength(line, pos + 1, c, ignoreCase)
  ELSE 0

\* the backtracking matcher on one alternative: the end of the match of
\* terms k.. at pos that the engine finds first (greedy quantifiers), or -1
RECURSIVE MatchTerms(_, _, _, _, _)
RECURSIVE TryStar(_, _, _, _, _, _)
MatchTerms(terms, k, line, pos, ignoreCase) ==
  IF k > Len(terms) THEN pos
  ELSE LET t == terms[k]
       IN  IF t.atom = WordBoundary
           THEN IF AtWordBoundary(line, pos)
                THEN MatchTerms(terms, k + 1, line, pos, ignoreCase)
                ELSE -1
           ELSE IF t.star
           THEN TryStar(terms, k, line, pos, ignoreCase,
                        RunLength(line, pos, t.atom, ignoreCase))
           ELSE IF CharMatches(line, pos, t.atom, ignoreCase)
                THEN MatchTerms(terms, k + 1, line, pos + 1, ignoreCase)
                ELSE -1

TryStar(terms, k, line, pos, ignoreCase, n) ==
  LET r == MatchTerms(terms, k + 1, line, pos + n, ignoreCase)
  IN  IF r # -1 THEN r
      ELSE IF n = 0 THEN -1
      ELSE TryStar(terms, k, line, pos, ignoreCase, n - 1)

\* the end of the match at pos: the first alternative, in order, that matches
RECURSIVE MatchAlternatives(_, _, _, _, _)
MatchAlternatives(regex, a, line, pos, ignoreCase) ==
  IF a > Len(regex) THEN -1
  ELSE LET r == MatchTerms(regex[a], 1, line, pos, ignoreCase)
       IN  IF r # -1 THEN r
           ELSE MatchAlternatives(regex, a + 1, line, pos, ignoreCase)

MatchAt(regex, line, pos, ignoreCase) ==
  MatchAlternatives(regex, 1, line, pos, ignoreCase)

\* regex.exec(line) with flag g: the leftmost match starting at lastIndex or
\* later, as [index, end] (end is the new lastIndex); index -1 is null.
\* A lastIndex beyond the line fails.
RECURSIVE Exec(_, _, _, _)
Exec(regex, line, lastIndex, ignoreCase) ==
  IF lastIndex > Len(line) THEN [index |-> -1, end |-> 0]
  ELSE LET e == MatchAt(regex, line, lastIndex, ignoreCase)
       IN  IF e # -1 THEN [index |-> lastIndex, end |-> e]
           ELSE Exec(regex, line, lastIndex + 1, ignoreCase)

(***************************************************************************)
(* SearchService: the line scanner.                                        *)
(***************************************************************************)
\* MakeResult without the + 1 of the column (a 0-based column)
MakeResultZeroBasedColumn(filePath, lineIndex, index, line) ==
  [file |-> filePath, line |-> lineIndex + 1, column |-> index,
   text |-> Trim(line), context |-> <<Trim(line)>>]

\* MakeResult with the matched line as it is in the file for its context
MakeResultUntrimmedContext(filePath, lineIndex, index, line) ==
  [file |-> filePath, line |-> lineIndex + 1, column |-> index + 1,
   text |-> Trim(line), context |-> <<line>>]

\* a SearchResult as searchInContent and searchLiteral build it
MakeResult(filePath, lineIndex, index, line) ==
  [file |-> filePath, line |-> lineIndex + 1, column |-> index + 1,
   text |-> Trim(line), context |-> <<Trim(line)>>]

\* the while loop of searchInContent over one line
RECURSIVE ScanLine(_, _, _, _, _, _, _, _)
ScanLine(regex, ignoreCase, line, lineIndex, lastIndex, filePath, cap, results) ==
  LET match == Exec(regex, line, lastIndex, ignoreCase)
  IN  IF match.index = -1 THEN results
      ELSE LET pushed == Append(results, MakeResult(filePath, lineIndex, match.index, line))
               next == IF match.index = match.end THEN match.end + 1 ELSE match.end
           IN  IF Len(pushed) >= cap THEN pushed
               ELSE ScanLine(regex, ignoreCase, line, lineIndex, next, filePath, cap,
                             pushed)

\* the for loop of searchInContent over the lines
RECURSIVE ScanLines(_, _, _, _, _, _, _)
ScanLines(regex, ignoreCase, lines, lineIndex, filePath, cap, results) ==
  IF lineIndex >= Len(lines) THEN results
  ELSE LET r == ScanLine(regex, ignoreCase, lines[lineIndex + 1], lineIndex, 0,
                         filePath, cap, results)
       IN  IF Len(r) >= cap THEN r
           ELSE ScanLines(regex, ignoreCase, lines, lineIndex + 1, filePath, cap, r)

\* IsWholeWord with the test after the match left out
IsWholeWordBeforeOnly(searchLine, matchIndex, n) ==
  matchIndex = 0 \/ ~IsWordChar(searchLine[matchIndex])

\* the whole-word test of searchLiteral on the match at matchIndex
IsWholeWord(searchLine, matchIndex, n) ==
  /\ matchIndex = 0 \/ ~IsWordChar(searchLine[matchIndex])
  /\ matchIndex + n = Len(searchLine) \/ ~IsWordChar(searchLine[matchIndex + n + 1])

\* the while loop of searchLiteral over one line
RECURSIVE LiteralLine(_, _, _, _, _, _, _, _, _)
LiteralLine(searchLine, searchPattern, line, lineIndex, startIndex, wholeWord, filePath, cap, results) ==
  LET matchIndex == IndexOf(searchLine, searchPattern, startIndex)
  IN  IF matchIndex = -1 THEN results
      ELSE IF wholeWord /\ ~IsWholeWord(searchLine, matchIndex, Len(searchPattern))
      THEN LiteralLine(searchLine, searchPattern, line, lineIndex, matchIndex + 1,
                       wholeWord, filePath, cap, results)
      ELSE LET pushed == Append(results, MakeResult(filePath, lineIndex, matchIndex, line))
           IN  IF Len(pushed) >= cap THEN pushed
               ELSE LiteralLine(searchLine, searchPattern, line, lineIndex,
                                matchIndex + 1, wholeWord, filePath, cap, pushed)

\* the for loop of searchLiteral over the lines
RECURSIVE LiteralLines(_, _, _, _, _, _, _)
LiteralLines(lines, searchPattern, options, lineIndex, filePath, cap, results) ==
  IF lineIndex >= Len(lines) THEN results
  ELSE LET line == lines[lineIndex + 1]
           searchLine == IF options.caseSensitive THEN line ELSE ToLowerCase(line)
           r == LiteralLine(searchLine, searchPattern, line, lineIndex, 0,
                            options.wholeWord, filePath, cap, results)
       IN  IF Len(r) >= cap THEN r
           ELSE LiteralLines(lines, searchPattern, options, lineIndex + 1, filePath, cap, r)

searchLiteral(content, searchTerm, filePath, options, cap) ==
  LET searchPattern == IF options.caseSensitive THEN searchTerm ELSE ToLowerCase(searchTerm)
  IN  LiteralLines(Split(content), searchPattern, options, 0, filePath, cap, <<>>)

\* the source handed to new RegExp: the pattern, wrapped when whole-word is set
RegexSource(pattern, options) ==
  IF options.wholeWord THEN <<WordBoundary>> \o pattern \o <<WordBoundary>> ELSE pattern

\* searchInContent with the number of matches at which the scan stops
Scan(content, pattern, filePath, options, cap) ==
  LET regexPattern == RegexSource(pattern, options)
  IN  IF RegexCompiles(regexPattern)
      THEN ScanLines(Compile(regexPattern), ~options.caseSensitive, Split(content), 0,
                     filePath, cap, <<>>)
      ELSE searchLiteral(content, pattern, filePath, options, cap)

\* a searchInContent that never stops at a number of matches
searchInContentUncapped(content, pattern, filePath, options) ==
  Scan(content, pattern, filePath, options, Len(content) + 2)

searchInContent(content, pattern, filePath, options) ==
  Scan(content, pattern, filePath, options, PerFileCap)

(***************************************************************************)
(* FuzzyMatcher.  A score is a rational number n / d: getPositionBonus     *)
(* divides by the length of the text.                                      *)
(***************************************************************************)
Score(n, d) == [n |-> n, d |-> d]
ScoreLess(a, b) == a.n * b.d < b.n * a.d
ScoreEqual(a, b) == a.n * b.d = b.n * a.d
ScorePlus(a, k) == Score(a.n + k * a.d, a.d)

NoMatch == [found |-> FALSE, score |-> Score(0, 1), matchedIndices |-> <<>>]
Match(score, indices) == [found |-> TRUE, score |-> score, matchedIndices |-> indices]

UpperChar(c) == IF c = "a" THEN "A" ELSE IF c = "b" THEN "B" ELSE c

\* /[\s\-_/.\\]/
isSeparator(c) == c \in {" ", NL, "-", "_", "/", ".", "\\"}

\* /[a-zA-Z]/
isLetter(c) == c \in {"a", "b", "A", "B"}

isCamelCase(text, index) ==
  /\ index # 0
  /\ LowerChar(text[index]) = text[index]
  /\ UpperChar(text[index + 1]) = text[index + 1]
  /\ isLetter(text[index + 1])

\* Math.max(0, 50 - (index * 50) / textLength)
getPositionBonus(index, textLength) ==
  IF 50 * textLength - index * 50 > 0
  THEN Score(50 * textLength - index * 50, textLength)
  ELSE Score(0, 1)

\* result.file.split('/').pop()
RECURSIVE LastSegment(_)
LastSegment(path) ==
  IF \E i \in 1..Len(path) : path[i] = "/"
  THEN LastSegment(Tail(path))
  ELSE path

getSearchableText(result) == ToLowerCase(LastSegment(result.file) \o <<" ">> \o result.text)

\* an exact match that reports the indices one place to the right
findExactMatchShifted(text, query) ==
  LET exactIndex == IndexOf(text, query, 0)
  IN  IF exactIndex = -1 THEN NoMatch
      ELSE Match(ScorePlus(getPositionBonus(exactIndex, Len(text)), 1000 + 16 * Len(query)),
                 [i \in 1..Len(query) |-> exactIndex + i])

findExactMatch(text, query) ==
  LET exactIndex == IndexOf(text, query, 0)
  IN  IF exactIndex = -1 THEN NoMatch
      ELSE Match(ScorePlus(getPositionBonus(exactIndex, Len(text)), 1000 + 16 * Len(query)),
                 [i \in 1..Len(query) |-> exactIndex + i - 1])

\* the inner while loop of findBestConsecutiveMatch, from one start: the
\* characters that do not match are passed over in one step, up to the next
\* position p that matches; a match next to the previous one extends the run
RECURSIVE ConsecutiveFrom(_, _, _, _, _, _, _)
ConsecutiveFrom(text, query, currentPos, queryPos, consecutiveMatches, maxConsecutive, indices) ==
  LET hits == {p \in currentPos..(Len(text) - 1) :
                 LowerChar(text[p + 1]) = LowerChar(query[queryPos + 1])}
      p == CHOOSE h \in hits : \A g \in hits : h <= g
      run == IF p = currentPos THEN consecutiveMatches + 1 ELSE 1
  IN  IF ~(queryPos < Len(query)) \/ hits = {}
      THEN [queryPos |-> queryPos, maxConsecutive |-> maxConsecutive, matchedIndices |-> indices]
      ELSE ConsecutiveFrom(text, query, p + 1, queryPos + 1, run,
                           IF run > maxConsecutive THEN run ELSE maxConsecutive,
                           Append(indices, p))

\* the body of the for loop of findBestConsecutiveMatch for one start: the
\* match it offers as the best one, which needs a score above 0
ConsecutiveStart(text, query, start) ==
  LET m == ConsecutiveFrom(text, query, start, 0, 0, 0, <<>>)
      ix == m.matchedIndices
      matchLength == ix[Len(ix)] - ix[1] + 1
      base == 500 + m.maxConsecutive * 50
                + (IF start = 0 \/ isSeparator(text[start]) THEN 100 ELSE 0)
                - matchLength * 2
      score == ScorePlus(getPositionBonus(start, Len(text)), base)
  IN  IF m.queryPos = Len(query) /\ score.n > 0 THEN Match(score, ix) ELSE NoMatch

\* the for loop of findBestConsecutiveMatch over the starts lo .. hi: a later
\* start replaces an earlier one only with a greater score
RECURSIVE ConsecutiveStarts(_, _, _, _)
ConsecutiveStarts(text, query, lo, hi) ==
  IF lo > hi THEN NoMatch
  ELSE IF lo = hi THEN ConsecutiveStart(text, query, lo)
  ELSE LET mid == (lo + hi) \div 2
           first == ConsecutiveStarts(text, query, lo, mid)
           second == ConsecutiveStarts(text, query, mid + 1, hi)
       IN  IF ScoreLess(first.score, second.score) THEN second ELSE first

findBestConsecutiveMatch(text, query) ==
  LET best == ConsecutiveStarts(text, query, 0, Len(text) - Len(query))
  IN  IF Len(best.matchedIndices) > 0 THEN best ELSE NoMatch

\* scoreMatchSequence, times 10: the position penalty is index * 0.1
RECURSIVE scoreMatchSequence(_, _, _)
scoreMatchSequence(text, matches, i) ==
  IF i > Len(matches) THEN 0
  ELSE LET index == matches[i]
       IN  (IF index = 0 \/ isSeparator(text[index]) THEN 500 ELSE 0)
             + (IF isCamelCase(text, index) THEN 300 ELSE 0)
             + (IF i > 1 /\ matches[i] = matches[i - 1] + 1 THEN 200 ELSE 0)
             - index
             - (IF i > 1 THEN (matches[i] - matches[i - 1] - 1) * 20 ELSE 0)
             + scoreMatchSequence(text, matches, i + 1)

NoSequence == [found |-> FALSE, matches |-> <<>>]

RECURSIVE findBestSequentialMatch(_, _, _, _, _)
RECURSIVE SequentialPositions(_, _, _, _, _, _)
findBestSequentialMatch(text, query, textIndex, queryIndex, currentMatches) ==
  IF queryIndex >= Len(query) THEN [found |-> TRUE, matches |-> currentMatches]
  ELSE IF textIndex >= Len(text) THEN NoSequence
  ELSE SequentialPositions(text, query, queryIndex, currentMatches, textIndex, Len(text) - 1)

\* the for loop of findBestSequentialMatch over the positions lo .. hi: a
\* later position replaces an earlier one only with a greater score
SequentialPositions(text, query, queryIndex, currentMatches, lo, hi) ==
  IF lo > hi THEN NoSequence
  ELSE IF lo = hi
  THEN IF text[lo + 1] # query[queryIndex + 1] THEN NoSequence
       ELSE findBestSequentialMatch(text, query, lo + 1, queryIndex + 1,
                                    Append(currentMatches, lo))
  ELSE LET mid == (lo + hi) \div 2
           first == SequentialPositions(text, query, queryIndex, currentMatches, lo, mid)
           second == SequentialPositions(text, query, queryIndex, currentMatches, mid + 1, hi)
           better == /\ second.found
                     /\ \/ ~first.found
                        \/ scoreMatchSequence(text, second.matches, 1)
                             > scoreMatchSequence(text, first.matches, 1)
       IN  IF better THEN second ELSE first

RECURSIVE FuzzyScore(_, _)
FuzzyScore(indices, i) ==
  IF i > Len(indices) THEN 0
  ELSE 5 - (IF i > 1 THEN (indices[i] - indices[i - 1] - 1) * 10 ELSE 0)
         + FuzzyScore(indices, i + 1)

findFuzzyMatch(text, query) ==
  LET best == findBestSequentialMatch(text, query, 0, 0, <<>>)
      indices == IF best.found THEN best.matches ELSE <<>>
      score == 50 + FuzzyScore(indices, 1)
  IN  IF Len(indices) # Len(query) THEN NoMatch
      ELSE Match(Score(IF score > 0 THEN score ELSE 0, 1), indices)

calculateMatch(text, query) ==
  IF Len(query) = 0 THEN NoMatch
  ELSE IF Len(query) > Len(text) THEN NoMatch
  ELSE LET exactMatch == findExactMatch(text, query)
           consecutiveMatch == findBestConsecutiveMatch(text, query)
       IN  IF exactMatch.found THEN exactMatch
           ELSE IF consecutiveMatch.found /\ consecutiveMatch.score.n > 0 THEN consecutiveMatch
           ELSE findFuzzyMatch(text, query)

\* a comparator that looks at the score alone
CompareByScoreOnly(a, b) == ScoreLess(b.score, a.score)

\* the comparator of matches.sort is negative: a sorts before b
ComparesBefore(a, b) ==
  IF ~ScoreEqual(a.score, b.score) THEN ScoreLess(b.score, a.score)
  ELSE a.result.line < b.result.line

\* Array.prototype.sort is stable: an element goes before the first one it
\* compares before, and after every one it does not
RECURSIVE InsertSorted(_, _)
InsertSorted(sorted, x) ==
  IF sorted = <<>> THEN <<x>>
  ELSE IF ComparesBefore(x, sorted[Len(sorted)])
  THEN Append(InsertSorted(SubSeq(sorted, 1, Len(sorted) - 1), x), sorted[Len(sorted)])
  ELSE Append(sorted, x)

RECURSIVE SortMatches(_, _)
SortMatches(matches, i) ==
  IF i = 0 THEN <<>> ELSE InsertSorted(SortMatches(matches, i - 1), matches[i])

\* every candidate with a reversed order
PassThroughReversed(rs) ==
  [i \in 1..Len(rs) |-> [result |-> rs[Len(rs) + 1 - i], score |-> Score(0, 1),
                         matchedIndices |-> <<>>]]

\* results.map(result => ({result, score: 0, matchedIndices: []}))
PassThrough(rs) ==
  [i \in 1..Len(rs) |-> [result |-> rs[i], score |-> Score(0, 1), matchedIndices |-> <<>>]]

\* the for loop of fuzzyFilter: the candidates with a positive score
RECURSIVE ScoredMatches(_, _, _)
ScoredMatches(rs, lowercaseQuery, i) ==
  IF i > Len(rs) THEN <<>>
  ELSE LET match == calculateMatch(getSearchableText(rs[i]), lowercaseQuery)
       IN  (IF match.score.n > 0
            THEN <<[result |-> rs[i], score |-> match.score,
                    matchedIndices |-> match.matchedIndices]>>
            ELSE <<>>) \o ScoredMatches(rs, lowercaseQuery, i + 1)

fuzzyFilter(rs, q) ==
  IF Trim(q) = <<>> THEN PassThrough(rs)
  ELSE LET matches == ScoredMatches(rs, ToLowerCase(q), 1)
       IN  SortMatches(matches, Len(matches))

(***************************************************************************)
(* State.                                                                  *)
(***************************************************************************)
VARIABLES
  \* SearchService
  files,         \* the files discoverFiles returns, in discovery order
  config,        \* ConfigService: the text-search options
  maxResults,    \* SearchService.defaultOptions.maxResults
  maxFileSize,   \* SearchService.defaultOptions.maxFileSize
  query,         \* searchWithQuery: the query of the call
  isFile,        \* searchWithQuery: the target is a file
  pc,            \* searchWithQuery: "idle", "file", "batch", "done"; "shown"
                 \* once the panel has posted the results
  batchStart,    \* searchInFolder: the loop variable i
  batchResults,  \* searchInFolder: what each searchInFile of the batch returned
  results,       \* searchInFolder: the accumulated results
  returned,      \* what searchWithQuery resolved with
  reads,         \* the number of searchInFile calls (file reads) started
  \* SearchWebviewPanel (extension host)
  searchType,          \* "file" or "folder"
  currentSearchQuery,
  filteredResults,
  toWebview,           \* panel.webview.postMessage: messages not yet delivered
  searches,            \* the handleSearch calls so far, in the order they were
                       \* made: the query of each, whether its onSearch promise
                       \* has resolved, and with what
  \* the webview script
  toHost,              \* vscode.postMessage: messages not yet delivered
  searchInput,         \* searchInput.value
  searchTimeout,       \* the debounce timer and the query its callback holds
  searchConfig,        \* the state of the two toggle buttons
  wvResults,           \* results
  wvSearchQuery,       \* currentSearchQuery
  wvMaxResults,        \* maxResults
  selectedIndex,
  displayedResults,
  resultCount,         \* resultCount.textContent: the total and the suffix
  \* the fuzzy search panel and the file search
  initialResults,        \* SearchWebviewPanel (fuzzy): the candidates
  fuzzyQuery,            \* the query of the last handleSearch of the fuzzy panel
  fuzzyFilteredResults,  \* SearchWebviewPanel (fuzzy): filteredResults
  walked,                \* the files walkDirectory finds, in the order it finds them
  fileMaxResults,        \* FileSearchService.defaultOptions.maxResults
  fileQuery,             \* the query of the last searchFiles
  fileSearchResults,     \* what the last searchFiles resolved with
  walks,                 \* how many times walkDirectory has gone through the folder
  gitignore,             \* the .gitignore of the folder that is walked
  relativePath,          \* a path walkDirectory comes to
  ignorePatterns,        \* what loadIgnorePatterns resolved with, once it has
  ignored,               \* what shouldIgnore returned for the path, once it has
  unreadableDirs,        \* the directories of the folder readdir fails for
  unstatable,            \* the entries of the folder stat fails for
  walkMode,              \* "text" or "file" once a discoverFiles has walked the folder
  discovered,            \* the files that walk found, in the order it found them
  scan,                  \* the loops of searchInContent and searchLiteral on the
                         \* content of one file, iteration by iteration
  \* the search history and the stored configuration
  searchHistory,     \* the webview's searchHistory
  historyIndex,      \* the webview's historyIndex
  historyFile,       \* the history file: the array it holds, if it exists
  lastAdded,         \* the last query addToHistory has put in the history
  configFile,        \* the configuration file: the options it holds, if it exists
  writable,          \* the configuration file can be written
  lastSet,           \* the value last set for each option, and the last update
                     \* updateTextSearchConfig was called with
  \* context loading
  contextReads,      \* the number of file reads made to load a context
  loadRequests,      \* the loadContext messages the webview has posted, in order
  loadHandled,       \* how many of them handleLoadContext has been called for
  loading,           \* the handleLoadContext calls waiting for onLoadContext, each
                     \* with the number of the ResultSet its result was taken from
  contextRequested,  \* the indices of the webview's results with contextRequested
  loaded,            \* the SearchResult a caller of loadContextForResult holds
  maximizedLayout,   \* the maximizedLayout setting
  lastLoad,          \* the last context load: what was asked of which file
                     \* content, and the lines it resolved with
  lastEvent          \* the last handler the webview ran on its results: the
                     \* display before it, the message it received and the
                     \* messages it posted

svcVars == <<files, config, maxResults, maxFileSize, query, isFile, pc, batchStart,
             batchResults, results, returned, reads>>

hostVars == <<searchType, currentSearchQuery, filteredResults, toWebview, searches>>

inputVars == <<toHost, searchInput, searchTimeout, searchConfig>>

displayVars == <<wvResults, wvSearchQuery, wvMaxResults, selectedIndex,
                 displayedResults, resultCount>>

webviewVars == <<inputVars, displayVars>>

walkVars == <<unreadableDirs, unstatable, walkMode, discovered, scan>>

historyVars == <<searchHistory, historyIndex, historyFile, lastAdded>>

storeVars == <<configFile, writable, lastSet>>

prefVars == <<historyVars, storeVars>>

rankVars == <<initialResults, fuzzyQuery, fuzzyFilteredResults, walked, fileMaxResults,
              fileQuery, fileSearchResults, walks, gitignore, relativePath, ignorePatterns,
              ignored, walkVars, prefVars>>

ctxVars == <<contextReads, loadRequests, loadHandled, loading, contextRequested, loaded,
             maximizedLayout, lastLoad, lastEvent>>

vars == <<svcVars, hostVars, webviewVars, rankVars, ctxVars>>

Pending == "pending"

\* a slice that forgets its end
TakeAll(seq, n) == seq

\* Array.prototype.slice(0, n)
Take(seq, n) == SubSeq(seq, 1, IF n < Len(seq) THEN n ELSE Len(seq))

Min(a, b) == IF a < b THEN a ELSE b

(***************************************************************************)
(* SearchService: searchInFile, searchInFolder, searchWithQuery.           *)
(***************************************************************************)
\* a searchInFile that also passes over a file of maxFileSize exactly
searchInFileBelowLimit(file, pattern) ==
  IF ~file.readable THEN <<>>
  ELSE IF Len(file.content) >= maxFileSize THEN <<>>
  ELSE Take(searchInContent(file.content, pattern, file.name, config), maxResults)

\* what searchInFile resolves with once the file has been read: nothing for
\* a file that cannot be read or is larger than maxFileSize
searchInFile(file, pattern) ==
  IF ~file.readable THEN <<>>
  ELSE IF Len(file.content) > maxFileSize THEN <<>>
  ELSE Take(searchInContent(file.content, pattern, file.name, config), maxResults)

\* the batch flattened from its last file to its first
RECURSIVE FlattenReversed(_, _, _)
FlattenReversed(slots, from, to) ==
  IF from > to THEN <<>> ELSE slots[to] \o FlattenReversed(slots, from, to - 1)

\* the concatenation, in discovery order, of what searchInFile returns for
\* each of the files from index i on
RECURSIVE PerFileResults(_, _)
PerFileResults(q, i) ==
  IF i > Len(files) THEN <<>>
  ELSE searchInFile(files[i], q) \o PerFileResults(q, i + 1)

\* batchResults.forEach(fileResults => results.push(...fileResults))
RECURSIVE Flatten(_, _, _)
Flatten(slots, from, to) ==
  IF from > to THEN <<>> ELSE slots[from] \o Flatten(slots, from + 1, to)

\* a batch that holds every file from index i on
BatchOfRest(i) == (i + 1)..Len(files)

\* the files of the batch that starts at index i (0-based): files.slice(i, i + batchSize)
BatchOf(i) == (i + 1)..Min(i + BatchSize, Len(files))

\* a guard that lets a whitespace-only query through
IsEmptyQuery(q) == q = <<>>

\* !query.trim()
IsBlankQuery(q) == Trim(q) = <<>>

\* searchWithQuery up to its first suspension: a blank query resolves with
\* no result at once; a file target starts searchInFile; a folder target
\* starts the first batch of searchInFile calls
SearchWithQuery(q, f) ==
  /\ pc = "idle"
  /\ query' = q
  /\ isFile' = f
  /\ IF IsBlankQuery(q)
     THEN /\ pc' = "done"
          /\ returned' = <<>>
          /\ UNCHANGED <<batchStart, batchResults, results, reads>>
     ELSE IF f
     THEN /\ pc' = "file"
          /\ reads' = reads + 1
          /\ UNCHANGED <<batchStart, batchResults, results, returned>>
     ELSE IF Len(files) = 0
     THEN /\ pc' = "done"
          /\ returned' = <<>>
          /\ results' = <<>>
          /\ UNCHANGED <<batchStart, batchResults, reads>>
     ELSE /\ pc' = "batch"
          /\ batchStart' = 0
          /\ batchResults' = [k \in BatchOf(0) |-> Pending]
          /\ results' = <<>>
          /\ reads' = reads + Cardinality(BatchOf(0))
          /\ UNCHANGED returned
  /\ UNCHANGED <<files, config, maxResults, maxFileSize>>

\* the searchInFile of a file target completes
FileSearchDone ==
  /\ pc = "file"
  /\ returned' = searchInFile(files[1], query)
  /\ pc' = "done"
  /\ UNCHANGED <<files, config, maxResults, maxFileSize, query, isFile, batchStart,
                 batchResults, results, reads>>
  /\ UNCHANGED <<hostVars, webviewVars, rankVars, ctxVars>>

\* the searchInFile of file k of the current batch completes; with the last
\* one Promise.all resolves and the loop body runs on: the batch is flattened
\* in file order, and the loop ends when maxResults is reached or no file is left
BatchFileDone(k) ==
  /\ pc = "batch"
  /\ k \in DOMAIN batchResults
  /\ batchResults[k] = Pending
  /\ LET slots == [batchResults EXCEPT ![k] = searchInFile(files[k], query)]
         last == Min(batchStart + BatchSize, Len(files))
     IN  IF \E j \in DOMAIN slots : slots[j] = Pending
         THEN /\ batchResults' = slots
              /\ UNCHANGED <<pc, batchStart, results, returned, reads>>
         ELSE LET all == results \o Flatten(slots, batchStart + 1, last)
                  next == batchStart + BatchSize
              IN  /\ results' = all
                  /\ IF Len(all) >= maxResults \/ next >= Len(files)
                     THEN /\ pc' = "done"
                          /\ returned' = Take(all, maxResults)
                          /\ batchResults' = slots
                          /\ UNCHANGED <<batchStart, reads>>
                     ELSE /\ batchStart' = next
                          /\ batchResults' = [j \in BatchOf(next) |-> Pending]
                          /\ reads' = reads + Cardinality(BatchOf(next))
                          /\ UNCHANGED <<pc, returned>>
  /\ UNCHANGED <<files, config, maxResults, maxFileSize, query, isFile>>
  /\ UNCHANGED <<hostVars, webviewVars, rankVars, ctxVars>>

(***************************************************************************)
(* The text-search panel: posting and showing a ResultSet.                 *)
(***************************************************************************)
\* SearchWebviewPanel.updateResults: the message posted to the webview
UpdateResultsMessage(rs, q) ==
  [command |-> "updateResults", results |-> rs, searchQuery |-> q,
   searchType |-> searchType,
   maxResults |-> IF searchType = "file" THEN FileDisplayLimit ELSE FolderDisplayLimit]

\* updateResultCount: `${total}${suffix} results`
ResultCountText(rs, limit) ==
  [total |-> Len(rs), suffix |-> IF Len(rs) >= limit THEN "+" ELSE ""]

\* updateContext of the webview: the result at index selected is shown with
\* the context it has; a context of one line that is the matched line has not
\* been loaded, and is requested unless it has been requested before
NeedsContext(rs, selected, requested) ==
  /\ selected < Len(rs)
  /\ Len(rs[selected + 1].context) = 1
  /\ rs[selected + 1].context[1] = Trim(rs[selected + 1].text)
  /\ selected \notin requested

LoadContextMessage(index) == [command |-> "loadContext", index |-> index]

\* the messages updateContext posts
ContextPosts(rs, selected, requested) ==
  IF NeedsContext(rs, selected, requested) THEN <<LoadContextMessage(selected)>> ELSE <<>>

UpdateContext(rs, selected, requested) ==
  /\ contextRequested' = IF NeedsContext(rs, selected, requested)
                         THEN requested \cup {selected} ELSE requested
  /\ loadRequests' = loadRequests \o ContextPosts(rs, selected, requested)

\* what the webview shows
Display ==
  [results |-> wvResults, query |-> wvSearchQuery, selected |-> selectedIndex,
   displayed |-> displayedResults]

Event(name, message, posts) ==
  [event |-> name, before |-> Display, message |-> message, posts |-> posts]

\* an updateResults listener that keeps the number of results displayed
WebviewUpdateResultsKeepsPaging ==
  /\ toWebview # <<>>
  /\ Head(toWebview).command = "updateResults"
  /\ LET message == Head(toWebview)
     IN  /\ wvResults' = message.results
         /\ wvSearchQuery' = message.searchQuery
         /\ wvMaxResults' = message.maxResults
         /\ selectedIndex' = 0
         /\ displayedResults' = displayedResults
         /\ resultCount' = ResultCountText(message.results, message.maxResults)
         /\ UpdateContext(message.results, 0, {})
         /\ lastEvent' = Event("updateResults", message, ContextPosts(message.results, 0, {}))
  /\ toWebview' = Tail(toWebview)
  /\ UNCHANGED <<svcVars, searchType, currentSearchQuery, filteredResults, searches,
                 inputVars, rankVars>>
  /\ UNCHANGED <<contextReads, loadHandled, loading, loaded, maximizedLayout, lastLoad>>

\* the webview's message listener on an updateResults message; updateDisplay
\* ends with updateContext, on results none of which has been requested
WebviewUpdateResults ==
  /\ toWebview # <<>>
  /\ Head(toWebview).command = "updateResults"
  /\ LET message == Head(toWebview)
     IN  /\ wvResults' = message.results
         /\ wvSearchQuery' = message.searchQuery
         /\ wvMaxResults' = message.maxResults
         /\ selectedIndex' = 0
         /\ displayedResults' = InitialBatchSize
         /\ resultCount' = ResultCountText(message.results, message.maxResults)
         /\ UpdateContext(message.results, 0, {})
         /\ lastEvent' = Event("updateResults", message, ContextPosts(message.results, 0, {}))
  /\ toWebview' = Tail(toWebview)
  /\ UNCHANGED <<svcVars, searchType, currentSearchQuery, filteredResults, searches,
                 inputVars, rankVars>>
  /\ UNCHANGED <<contextReads, loadHandled, loading, loaded, maximizedLayout, lastLoad>>

\* clearTimeout: no debounce timer is set
NoTimeout == [set |-> FALSE, query |-> <<>>]

\* no context has been loaded
NoLoad ==
  [mode |-> "none", readable |-> TRUE, lines |-> <<>>, targetLine |-> 0,
   contextSize |-> 0, context |-> <<>>]

\* the 'configLoaded' branch of the webview's message listener: the state
\* it gives the two toggle buttons
configLoaded(options) ==
  [caseSensitive |-> ~options.caseSensitive, wholeWord |-> options.wholeWord]

\* the state of a panel that has just been opened, before any search and
\* whatever the webview has posted or set its buttons to
PanelOpened ==
  /\ currentSearchQuery = <<>>
  /\ filteredResults = <<>>
  /\ toWebview = <<>>
  /\ searches = <<>>
  /\ searchInput = <<>>
  /\ searchTimeout = NoTimeout
  /\ wvResults = <<>>
  /\ wvSearchQuery = <<>>
  /\ wvMaxResults = IF searchType = "file" THEN FileDisplayLimit ELSE FolderDisplayLimit
  /\ selectedIndex = 0
  /\ displayedResults = InitialBatchSize
  /\ resultCount = ResultCountText(<<>>, wvMaxResults)
  /\ contextReads = 0
  /\ loadRequests = <<>>
  /\ loading = <<>>
  /\ contextRequested = {}
  /\ lastLoad = NoLoad
  /\ loadHandled = 0
  /\ lastEvent = [event |-> "none", before |-> Display, message |-> <<>>, posts |-> <<>>]

\* the state of a panel that has just been opened, before any search: the
\* webview has loaded the configuration (configLoaded)
PanelInit ==
  /\ PanelOpened
  /\ toHost = <<>>
  /\ searchConfig = configLoaded(config)

\* a SearchService with no call in progress
ServiceIdle ==
  /\ query = <<>>
  /\ pc = "idle"
  /\ batchStart = 0
  /\ batchResults = <<>>
  /\ results = <<>>
  /\ returned = <<>>
  /\ reads = 0

Configs == [caseSensitive : BOOLEAN, wholeWord : BOOLEAN]

(***************************************************************************)
(* The search history of the webview and the history file.                 *)
(***************************************************************************)
\* a file is the sequence of the one value it holds, and no file the empty one
NoHistoryFile == <<>>

\* Array.prototype.indexOf: 0-based index of the first element equal to q, or -1
ArrayIndexOf(history, q) ==
  LET hits == {i \in 1..Len(history) : history[i] = q}
  IN  IF hits = {} THEN -1 ELSE (CHOOSE i \in hits : \A j \in hits : i <= j) - 1

\* Array.prototype.splice(index, 1)
SpliceOne(history, index) ==
  SubSeq(history, 1, index) \o SubSeq(history, index + 2, Len(history))

\* an addToHistory that leaves an earlier occurrence of the query in place
addToHistoryKeepingDuplicate(history, q) ==
  IF q = <<>> \/ Trim(q) = <<>> THEN history
  ELSE Take(<<q>> \o history, MaxHistorySize)

\* addToHistory: the searchHistory it leaves
addToHistory(history, q) ==
  IF q = <<>> \/ Trim(q) = <<>> THEN history
  ELSE LET index == ArrayIndexOf(history, q)
           spliced == IF index > -1 THEN SpliceOne(history, index) ELSE history
           unshifted == <<q>> \o spliced
       IN  IF Len(unshifted) > MaxHistorySize THEN Take(unshifted, MaxHistorySize)
           ELSE unshifted

\* handleLoadHistory: the history it posts
handleLoadHistory(file) == IF file = NoHistoryFile THEN <<>> ELSE file[1]

(***************************************************************************)
(* ConfigService: the options and the configuration file.                  *)
(***************************************************************************)
NoConfigFile == <<>>

\* ConfigService.getDefaultConfig()["text-search"]
getDefaultConfig == [caseSensitive |-> FALSE, wholeWord |-> FALSE]

\* { ...base, ...updates }
Spread(base, updates) ==
  [k \in DOMAIN base \cup DOMAIN updates |->
     IF k \in DOMAIN updates THEN updates[k] ELSE base[k]]

\* the partial configurations an update may hold
Updates ==
  UNION {[keys -> BOOLEAN] : keys \in SUBSET {"caseSensitive", "wholeWord"}}

\* ConfigService.loadConfig: the options a new ConfigService holds
loadConfig(file) ==
  IF file = NoConfigFile THEN getDefaultConfig ELSE Spread(getDefaultConfig, file[1])

\* ConfigService.saveConfig: what the file holds after it
saveConfig(options, file, canWrite) == IF canWrite THEN <<options>> ELSE file

\* an updateTextSearchConfig that saves the options it had before the update
updateTextSearchConfigSavingOld(updates) ==
  /\ config' = Spread(config, updates)
  /\ configFile' = saveConfig(config, configFile, writable)
  /\ lastSet' = [options |-> Spread(lastSet.options, updates), updates |-> updates]
  /\ UNCHANGED writable

\* ConfigService.updateTextSearchConfig
updateTextSearchConfig(updates) ==
  /\ config' = Spread(config, updates)
  /\ configFile' = saveConfig(config', configFile, writable)
  /\ lastSet' = [options |-> Spread(lastSet.options, updates), updates |-> updates]
  /\ UNCHANGED writable

\* no history
HistoryIdle ==
  /\ searchHistory = <<>>
  /\ historyIndex = -1
  /\ historyFile = NoHistoryFile
  /\ lastAdded = <<>>

\* the configuration file the options were loaded from
StoreIdle ==
  /\ configFile = IF config = getDefaultConfig THEN NoConfigFile ELSE <<config>>
  /\ writable = TRUE
  /\ lastSet = [options |-> config, updates |-> <<>>]

PrefIdle == HistoryIdle /\ StoreIdle

(***************************************************************************)
(* Context loading: SearchService.loadContextForResult and                 *)
(* FileSearchService.getFileContext.                                       *)
(***************************************************************************)
Max(a, b) == IF a > b THEN a ELSE b

\* Array.prototype.slice(start, end), for start and end not negative
Slice(seq, start, end) == SubSeq(seq, start + 1, Min(end, Len(seq)))

\* the file of the model with the path filePath
FileAt(filePath) == files[CHOOSE i \in 1..Len(files) : files[i].name = filePath]

getContextSize(isVerticalLayout) ==
  IF isVerticalLayout THEN VerticalContextSize ELSE HorizontalContextSize

\* context lines that leave out the first line of the window
readContextLinesLate(file, targetLine, contextSize) ==
  IF ~file.readable THEN <<>>
  ELSE LET lines == Split(file.content)
           startLine == Max(0, targetLine - contextSize)
           endLine == Min(Len(lines), targetLine + contextSize)
       IN  Slice(lines, startLine, endLine)

\* SearchService.readContextLines: readFile throws for a file that cannot be
\* read, and the catch returns no line
readContextLines(file, targetLine, contextSize) ==
  IF ~file.readable THEN <<>>
  ELSE LET lines == Split(file.content)
           startLine == Max(0, targetLine - contextSize - 1)
           endLine == Min(Len(lines), targetLine + contextSize)
       IN  Slice(lines, startLine, endLine)

\* loadContextForResult returns the result as it is: context.length > 1
AlreadyLoaded(result) == Len(result.context) > 1

loadContextForResult(result, isVerticalLayout) ==
  IF AlreadyLoaded(result) THEN result
  ELSE [result EXCEPT !.context = readContextLines(FileAt(result.file), result.line,
                                                   getContextSize(isVerticalLayout))]

\* CONTEXT_MULTIPLIER of FileSearchService
ContextMultiplier == 3

ErrorLoadingFileContent == <<"Error loading file content">>

\* a getFileContext that returns no line for a file that cannot be read
getFileContextEmpty(file, contextSize) ==
  IF ~file.readable THEN <<>>
  ELSE Slice(Split(file.content), 0, contextSize * ContextMultiplier)

\* FileSearchService.getFileContext
getFileContext(file, contextSize) ==
  IF ~file.readable THEN <<ErrorLoadingFileContent>>
  ELSE Slice(Split(file.content), 0, contextSize * ContextMultiplier)

(***************************************************************************)
(* FileSearchService: discoverFiles and searchFiles.                       *)
(***************************************************************************)
\* the file names of the model, in the order of localeCompare
FileNames == <<"a", "b">>

NameRank(name) == CHOOSE i \in 1..Len(FileNames) : FileNames[i] = name

\* files.sort((a, b) => a.name.localeCompare(b.name)): a stable sort
RECURSIVE InsertByName(_, _)
InsertByName(sorted, f) ==
  IF sorted = <<>> THEN <<f>>
  ELSE IF NameRank(f.name) < NameRank(sorted[Len(sorted)].name)
  THEN Append(InsertByName(SubSeq(sorted, 1, Len(sorted) - 1), f), sorted[Len(sorted)])
  ELSE Append(sorted, f)

RECURSIVE SortByName(_, _)
SortByName(fs, i) ==
  IF i = 0 THEN <<>> ELSE InsertByName(SortByName(fs, i - 1), fs[i])

discoverFiles == SortByName(walked, Len(walked))

\* the sequences without repetition of elements of the sequence fs
RECURSIVE Arrangements(_, _)
Arrangements(fs, n) ==
  IF n = 0 THEN {<<>>}
  ELSE LET shorter == Arrangements(fs, n - 1)
       IN  shorter \cup
           {Append(t, fs[i]) : t \in {u \in shorter : Len(u) = n - 1},
                              i \in 1..Len(fs)}

Injective(t) == \A i, j \in 1..Len(t) : t[i] = t[j] => i = j

\* fuse.search(query).map(result => result.item): some of the files, in the
\* order Fuse.js ranks them
FuseSearch(fs) == {t \in Arrangements(fs, Len(fs)) : Injective(t)}

(***************************************************************************)
(* SearchService: the ignore patterns of a folder walk.                    *)
(***************************************************************************)
\* defaultOptions.excludePatterns
excludePatterns ==
  << <<"n", "o", "d", "e", "_", "m", "o", "d", "u", "l", "e", "s", "/", "*", "*">>,
     <<".", "g", "i", "t", "/", "*", "*">>,
     <<"*", ".", "l", "o", "g">>,
     <<"t", "a", "r", "g", "e", "t", "/", "*", "*">>,
     <<"d", "i", "s", "t", "/", "*", "*">>,
     <<"b", "u", "i", "l", "d", "/", "*", "*">>,
     <<".", "v", "s", "c", "o", "d", "e", "-", "t", "e", "s", "t", "/", "*", "*">>,
     <<"c", "o", "v", "e", "r", "a", "g", "e", "/", "*", "*">> >>

StartsWith(s, prefix) == Len(prefix) <= Len(s) /\ SubSeq(s, 1, Len(prefix)) = prefix

EndsWith(s, suffix) ==
  Len(suffix) <= Len(s) /\ SubSeq(s, Len(s) - Len(suffix) + 1, Len(s)) = suffix

Includes(s, c) == \E i \in 1..Len(s) : s[i] = c

\* replace(/\\/g, "/")
NormalizeSlashes(s) == [i \in 1..Len(s) |-> IF s[i] = "\\" THEN "/" ELSE s[i]]

\* replace(/\./g, "\\.")
RECURSIVE EscapeDots(_)
EscapeDots(s) ==
  IF s = <<>> THEN <<>>
  ELSE IF Head(s) = "." THEN <<"\\", ".">> \o EscapeDots(Tail(s))
  ELSE <<Head(s)>> \o EscapeDots(Tail(s))

\* replace(/\*\*/g, ".*")
RECURSIVE ReplaceDoubleStars(_)
ReplaceDoubleStars(s) ==
  IF s = <<>> THEN <<>>
  ELSE IF Len(s) >= 2 /\ s[1] = "*" /\ s[2] = "*"
       THEN <<".", "*">> \o ReplaceDoubleStars(SubSeq(s, 3, Len(s)))
  ELSE <<Head(s)>> \o ReplaceDoubleStars(Tail(s))

\* replace(/\*/g, "[^/]*"), which also replaces the "*" the step before wrote
RECURSIVE ReplaceStars(_)
ReplaceStars(s) ==
  IF s = <<>> THEN <<>>
  ELSE IF Head(s) = "*" THEN <<"[", "^", "/", "]", "*">> \o ReplaceStars(Tail(s))
  ELSE <<Head(s)>> \o ReplaceStars(Tail(s))

NotSlashStar == <<"[", "^", "/", "]", "*">>

\* new RegExp("^" + regexPattern + "$").test(path) from position j of the
\* path: the source is made of escaped dots, dots, [^/]* and characters
\* that stand for themselves (IgnoreChars has no other metacharacter, so
\* the constructor does not throw)
RECURSIVE RegexTest(_, _, _)
RegexTest(regexPattern, path, j) ==
  IF regexPattern = <<>> THEN j = Len(path) + 1
  ELSE IF StartsWith(regexPattern, NotSlashStar)
       THEN LET rest == SubSeq(regexPattern, 6, Len(regexPattern))
            IN  \E k \in j..(Len(path) + 1) :
                  /\ \A m \in j..(k - 1) : path[m] # "/"
                  /\ RegexTest(rest, path, k)
  ELSE IF Head(regexPattern) = "\\"
       THEN /\ j <= Len(path)
            /\ path[j] = regexPattern[2]
            /\ RegexTest(SubSeq(regexPattern, 3, Len(regexPattern)), path, j + 1)
  ELSE IF Head(regexPattern) = "."
       THEN /\ j <= Len(path)
            /\ path[j] # NL
            /\ RegexTest(Tail(regexPattern), path, j + 1)
  ELSE /\ j <= Len(path)
       /\ path[j] = Head(regexPattern)
       /\ RegexTest(Tail(regexPattern), path, j + 1)

matchesPattern(path, pattern) ==
  IF EndsWith(pattern, <<"/", "*", "*">>)
  THEN LET prefix == SubSeq(pattern, 1, Len(pattern) - 3)
       IN  StartsWith(path, Append(prefix, "/")) \/ path = prefix
  ELSE IF Includes(pattern, "*")
       THEN RegexTest(ReplaceStars(ReplaceDoubleStars(EscapeDots(pattern))), path, 1)
  ELSE path = pattern \/ StartsWith(path, Append(pattern, "/"))

\* a shouldIgnore in which a pattern that starts with "!" includes again
\* the paths the rest of it matches, the last pattern that matches deciding
RECURSIVE shouldIgnoreNegating(_, _)
shouldIgnoreNegating(path, patterns) ==
  IF patterns = <<>> THEN FALSE
  ELSE LET pattern == patterns[Len(patterns)]
           before == SubSeq(patterns, 1, Len(patterns) - 1)
       IN  IF Len(pattern) > 0 /\ Head(pattern) = "!"
           THEN IF matchesPattern(NormalizeSlashes(path), Tail(pattern)) THEN FALSE
                ELSE shouldIgnoreNegating(path, before)
           ELSE IF matchesPattern(NormalizeSlashes(path), pattern) THEN TRUE
                ELSE shouldIgnoreNegating(path, before)

\* SearchService.shouldIgnore: true at the first pattern that matches
shouldIgnore(path, patterns) ==
  \E i \in 1..Len(patterns) :
    matchesPattern(NormalizeSlashes(path), NormalizeSlashes(patterns[i]))

\* the lines of a .gitignore that are patterns
IsIgnoreLine(line) == line # <<>> /\ Head(line) # "#"

TrimAll(lines) == [i \in 1..Len(lines) |-> Trim(lines[i])]

\* SearchService.loadIgnorePatterns: the default patterns, then the lines of
\* the .gitignore if it can be read
loadIgnorePatterns(file) ==
  IF ~file.readable THEN excludePatterns
  ELSE excludePatterns \o SelectSeq(TrimAll(Split(file.content)), IsIgnoreLine)

NoGitignore == [readable |-> FALSE, content |-> <<>>]

(***************************************************************************)
(* The walk of a folder: SearchService.walkDirectory for a text search and *)
(* FileSearchService.walkDirectory for a file search.                      *)
(***************************************************************************)
\* the names of the entries of the folder
NameA == <<"a">>
NameDist == <<"d", "i", "s", "t">>
NameTs == <<"a", ".", "t", "s">>
NameLog == <<"a", ".", "l", "o", "g">>
NameHidden == <<".", "a", ".", "t", "s">>

\* the directories of the folder, each the names from the root down to it;
\* the root is the empty path
WalkDirs ==
  { <<>>, <<NameDist>>, <<NameA>>, <<NameA, NameDist>>, <<NameA, NameA>>,
    <<NameA, NameA, NameA>>, <<NameA, NameA, NameA, NameA>> }

\* the files of the folder
WalkFiles ==
  { <<NameTs>>, <<NameLog>>, <<NameHidden>>, <<NameDist, NameTs>>,
    <<NameA, NameTs>>, <<NameA, NameLog>>, <<NameA, NameDist, NameTs>>,
    <<NameA, NameA, NameTs>>, <<NameA, NameA, NameA, NameTs>>,
    <<NameA, NameA, NameA, NameA, NameTs>> }

\* the order in which readdir lists the entries of a directory
ReaddirOrder == <<NameHidden, NameA, NameLog, NameTs, NameDist>>

\* fs.promises.readdir(currentPath, {withFileTypes: true}) when it succeeds
Readdir(currentPath) ==
  LET IsEntry(name) == Append(currentPath, name) \in WalkDirs \cup WalkFiles
  IN  SelectSeq(ReaddirOrder, IsEntry)

\* path.relative(basePath, fullPath): the names with "/" between them
RECURSIVE RelativePath(_)
RelativePath(fullPath) ==
  IF fullPath = <<>> THEN <<>>
  ELSE IF Len(fullPath) = 1 THEN fullPath[1]
  ELSE fullPath[1] \o <<"/">> \o RelativePath(Tail(fullPath))

\* the extensions of isTextFile
textExtensions ==
  { <<".", "j", "s">>,
    <<".", "t", "s">>,
    <<".", "j", "s", "x">>,
    <<".", "t", "s", "x">>,
    <<".", "h", "t", "m", "l">>,
    <<".", "c", "s", "s">>,
    <<".", "s", "c", "s", "s">>,
    <<".", "j", "s", "o", "n">>,
    <<".", "m", "d">>,
    <<".", "t", "x", "t">>,
    <<".", "p", "y">>,
    <<".", "j", "a", "v", "a">>,
    <<".", "c", "p", "p">>,
    <<".", "c">>,
    <<".", "h">>,
    <<".", "g", "o">>,
    <<".", "r", "s">>,
    <<".", "p", "h", "p">>,
    <<".", "r", "b">>,
    <<".", "s", "w", "i", "f", "t">>,
    <<".", "k", "t">>,
    <<".", "y", "a", "m", "l">>,
    <<".", "y", "m", "l">>,
    <<".", "t", "o", "m", "l">>,
    <<".", "i", "n", "i">>,
    <<".", "c", "o", "n", "f">>,
    <<".", "c", "o", "n", "f", "i", "g">>,
    <<".", "e", "n", "v">>,
    <<".", "x", "m", "l">>,
    <<".", "s", "v", "g">> }

\* path.extname: from the last "." of the name, unless that is its first
\* character or there is none
extname(filename) ==
  LET dots == {i \in 1..Len(filename) : filename[i] = "."}
  IN  IF dots = {} THEN <<>>
      ELSE LET last == CHOOSE i \in dots : \A j \in dots : j <= i
           IN  IF last = 1 THEN <<>> ELSE SubSeq(filename, last, Len(filename))

isTextFile(filename) == ToLowerCase(extname(filename)) \in textExtensions

\* entry.name.startsWith("."), includeHidden being false
IsHidden(name) == StartsWith(name, <<".">>)

\* FileSearchService.defaultOptions.excludePatterns
fileExcludePatterns ==
  excludePatterns \o
    << <<".", "n", "y", "c", "_", "o", "u", "t", "p", "u", "t", "/", "*", "*">>,
       <<"o", "u", "t", "/", "*", "*">> >>

\* a walk that gives up at the first directory it cannot read: the files
\* found before it are all it returns
RECURSIVE WalkUntilFailure(_, _, _, _)
WalkUntilFailure(todo, patterns, mode, soFar) ==
  IF todo = <<>> THEN soFar
  ELSE LET fullPath == Head(todo).path
           depth == Head(todo).depth
       IN  IF fullPath \in WalkFiles
           THEN WalkUntilFailure(Tail(todo), patterns, mode, Append(soFar, fullPath))
           ELSE IF depth > maxDepth
           THEN WalkUntilFailure(Tail(todo), patterns, mode, soFar)
           ELSE IF fullPath \in unreadableDirs THEN soFar
           ELSE LET names == Readdir(fullPath)
                    Kept(name) ==
                      /\ ~shouldIgnore(RelativePath(Append(fullPath, name)), patterns)
                      /\ ~IsHidden(name)
                      /\ mode = "file" => Append(fullPath, name) \notin unstatable
                      /\ (mode = "text" /\ Append(fullPath, name) \in WalkFiles)
                           => isTextFile(name)
                    kept == SelectSeq(names, Kept)
                    entries == [k \in 1..Len(kept) |->
                                  [path |-> Append(fullPath, kept[k]), depth |-> depth + 1]]
                IN  WalkUntilFailure(entries \o Tail(todo), patterns, mode, soFar)

walkDirectoryGivingUp(currentPath, patterns, depth, mode) ==
  WalkUntilFailure(<<[path |-> currentPath, depth |-> depth]>>, patterns, mode, <<>>)

\* a walk that also lists the directories one level below maxDepth
RECURSIVE walkDirectoryDeeper(_, _, _, _)
RECURSIVE WalkEntriesDeeper(_, _, _, _, _, _)
WalkEntriesDeeper(names, k, currentPath, patterns, depth, mode) ==
  IF k > Len(names) THEN <<>>
  ELSE LET name == names[k]
           fullPath == Append(currentPath, name)
           found ==
             IF shouldIgnore(RelativePath(fullPath), patterns) \/ IsHidden(name) THEN <<>>
             ELSE IF mode = "file" /\ fullPath \in unstatable THEN <<>>
             ELSE IF fullPath \in WalkDirs
                  THEN walkDirectoryDeeper(fullPath, patterns, depth + 1, mode)
             ELSE IF mode = "file" \/ isTextFile(name) THEN <<fullPath>>
             ELSE <<>>
       IN  found \o WalkEntriesDeeper(names, k + 1, currentPath, patterns, depth, mode)

walkDirectoryDeeper(currentPath, patterns, depth, mode) ==
  IF depth > maxDepth + 1 THEN <<>>
  ELSE IF currentPath \in unreadableDirs THEN <<>>
  ELSE WalkEntriesDeeper(Readdir(currentPath), 1, currentPath, patterns, depth, mode)

\* walkDirectory: nothing below maxDepth; a directory readdir fails for adds
\* nothing (the catch); an entry the patterns match is passed over, and so
\* is a hidden one; a text search keeps the files isTextFile accepts, a file
\* search the files stat succeeds for
RECURSIVE walkDirectory(_, _, _, _)
RECURSIVE WalkEntries(_, _, _, _, _, _)
WalkEntries(names, k, currentPath, patterns, depth, mode) ==
  IF k > Len(names) THEN <<>>
  ELSE LET name == names[k]
           fullPath == Append(currentPath, name)
           found ==
             IF shouldIgnore(RelativePath(fullPath), patterns) \/ IsHidden(name) THEN <<>>
             ELSE IF mode = "file" /\ fullPath \in unstatable THEN <<>>
             ELSE IF fullPath \in WalkDirs
                  THEN walkDirectory(fullPath, patterns, depth + 1, mode)
             ELSE IF mode = "file" \/ isTextFile(name) THEN <<fullPath>>
             ELSE <<>>
       IN  found \o WalkEntries(names, k + 1, currentPath, patterns, depth, mode)

walkDirectory(currentPath, patterns, depth, mode) ==
  IF depth > maxDepth THEN <<>>
  ELSE IF currentPath \in unreadableDirs THEN <<>>
  ELSE WalkEntries(Readdir(currentPath), 1, currentPath, patterns, depth, mode)

\* loadIgnorePatterns of the FileSearchService
loadFileIgnorePatterns(file) ==
  fileExcludePatterns \o SubSeq(loadIgnorePatterns(file), Len(excludePatterns) + 1,
                                Len(loadIgnorePatterns(file)))

\* no discoverFiles has walked the folder
\* no scan is followed iteration by iteration
NoScan ==
  [status |-> "idle", literal |-> FALSE, lines |-> <<>>, pattern |-> <<>>, lineIndex |-> 0,
   lastIndex |-> 0, results |-> <<>>, lastMatch |-> <<>>, zeroWidth |-> 0]

WalkIdle ==
  /\ scan = NoScan
  /\ unreadableDirs = {}
  /\ unstatable = {}
  /\ walkMode = "none"
  /\ discovered = <<>>

\* no folder is being walked
IgnoreIdle ==
  /\ gitignore = NoGitignore
  /\ relativePath = <<>>
  /\ ignorePatterns = <<>>
  /\ ignored = <<>>
  /\ WalkIdle

\* a fuzzy panel and a file search over nothing
FolderIdle ==
  /\ initialResults = <<>>
  /\ fuzzyQuery = <<>>
  /\ fuzzyFilteredResults = <<>>
  /\ walked = <<>>
  /\ fileMaxResults = MaxWalked
  /\ fileQuery = <<>>
  /\ fileSearchResults = <<>>
  /\ walks = 0
  /\ IgnoreIdle

RankIdle == FolderIdle /\ PrefIdle

(***************************************************************************)
(* ScanSpec: searchWithQuery on one file, for every content, pattern and   *)
(* option set within the bounds.                                           *)
(***************************************************************************)
Contents == Strings(ContentChars, MaxContentLen)
Patterns == Strings(PatChars, MaxPatLen)

ScanInit ==
  /\ \E c \in Contents : files = <<[name |-> "f1", content |-> c, readable |-> TRUE]>>
  /\ config \in Configs
  /\ maxResults = PerFileCap
  /\ maxFileSize = MaxContentLen
  /\ isFile = TRUE
  /\ searchType = "file"
  /\ ServiceIdle
  /\ PanelInit
  /\ maximizedLayout = FALSE
  /\ loaded = <<>>
  /\ RankIdle

ScanNext ==
  \/ \E q \in Patterns : SearchWithQuery(q, TRUE) /\ UNCHANGED <<hostVars, webviewVars, rankVars, ctxVars>>
  \/ FileSearchDone

ScanSpec == ScanInit /\ [][ScanNext]_vars

(***************************************************************************)
(* FolderSpec: one search of the panel on a folder or on a file, with the  *)
(* file reads of a batch completing in any order, up to the result count   *)
(* the webview shows.                                                      *)
(***************************************************************************)
\* contents with no match of "a", with fewer than the per-file cap, and with more
FolderContents ==
  {c \in Strings({"a"}, MaxFolderContentLen) : Len(c) \in {0, PerFileCap - 1, MaxFolderContentLen}}
FolderQueries == Strings({"a", " "}, MaxPatLen)
FolderFiles == <<"f1", "f2", "f3", "f4">>

RECURSIVE FileLists(_)
FileLists(n) ==
  IF n = 0 THEN {<<>>}
  ELSE LET shorter == FileLists(n - 1)
       IN  shorter \cup
           {Append(fs, [name |-> FolderFiles[n], content |-> c, readable |-> TRUE]) :
              fs \in {t \in shorter : Len(t) = n - 1}, c \in FolderContents}

FolderInit ==
  /\ searchType \in {"file", "folder"}
  /\ \E fs \in FileLists(MaxFiles) :
       \E unreadable \in {{}} \cup {{i} : i \in 1..Len(fs)} :
         files = [i \in 1..Len(fs) |-> [fs[i] EXCEPT !.readable = i \notin unreadable]]
  /\ searchType = "file" => Len(files) >= 1
  /\ config = [caseSensitive |-> FALSE, wholeWord |-> FALSE]
  /\ maxResults \in {FolderDisplayLimit - 1, FolderDisplayLimit, FolderDisplayLimit + 1}
  /\ maxFileSize = MaxFolderContentLen
  /\ isFile = (searchType = "file")
  /\ ServiceIdle
  /\ PanelInit
  /\ maximizedLayout = FALSE
  /\ loaded = <<>>
  /\ RankIdle

\* handleSearch up to its await: the query is recorded and the search starts
HandleSearch(q) ==
  /\ currentSearchQuery' = q
  /\ SearchWithQuery(q, searchType = "file")
  /\ UNCHANGED <<searchType, filteredResults, toWebview, searches, webviewVars, rankVars, ctxVars>>

\* handleSearch after its await: the results are stored and posted
HandleSearchDone ==
  /\ pc = "done"
  /\ pc' = "shown"
  /\ filteredResults' = returned
  /\ toWebview' = Append(toWebview, UpdateResultsMessage(returned, currentSearchQuery))
  /\ UNCHANGED <<files, config, maxResults, maxFileSize, query, isFile, batchStart,
                 batchResults, results, returned, reads>>
  /\ UNCHANGED <<searchType, currentSearchQuery, searches, webviewVars, rankVars, ctxVars>>

FolderNext ==
  \/ \E q \in FolderQueries : HandleSearch(q)
  \/ FileSearchDone
  \/ \E k \in 1..MaxFiles : BatchFileDone(k)
  \/ HandleSearchDone
  \/ WebviewUpdateResults

FolderSpec == FolderInit /\ [][FolderNext]_vars

(***************************************************************************)
(* PanelSpec: a panel whose user types, lets the debounce timer run and    *)
(* clicks the toggle buttons while earlier searches are still in flight.   *)
(* Each search resolves in one step, with the list searchWithQuery returns *)
(* for its query, and the searches resolve in any order.                   *)
(***************************************************************************)
\* queries of length <= 2 are searched without debounce
ImmediateMaxLength == 2

PanelQueries == Strings({"a"}, MaxQueryLen) \cup {<<" ">>}

\* TextSearchProvider.performSearch: what the onSearch promise of a query
\* resolves with
performSearch(q) ==
  IF IsBlankQuery(q) THEN <<>>
  ELSE IF searchType = "file" THEN searchInFile(files[1], q)
  ELSE Take(PerFileResults(q, 1), maxResults)

SearchMessage(q) == [command |-> "search", query |-> q]

\* the search requests made and not yet handled by handleSearch
RequestsPending ==
  Cardinality({i \in 1..Len(toHost) : toHost[i].command = "search"})
    + (IF searchTimeout.set THEN 1 ELSE 0)

CanRequest == Len(searches) + RequestsPending < MaxSearches /\ Len(toHost) < MaxQueue

\* the 'input' listener of searchInput: a file search and a short query are
\* posted at once, a longer folder query when the debounce timer fires
SearchInput(q) ==
  /\ CanRequest
  /\ q # searchInput
  /\ searchInput' = q
  /\ IF searchType = "file" \/ Len(q) <= ImmediateMaxLength
     THEN /\ toHost' = Append(toHost, SearchMessage(q))
          /\ searchTimeout' = NoTimeout
     ELSE /\ searchTimeout' = [set |-> TRUE, query |-> q]
          /\ UNCHANGED toHost
  /\ UNCHANGED <<svcVars, hostVars, searchConfig, displayVars, rankVars, ctxVars>>

\* the callback of the debounce timer
SearchTimeout ==
  /\ searchTimeout.set
  /\ toHost' = Append(toHost, SearchMessage(searchTimeout.query))
  /\ searchTimeout' = NoTimeout
  /\ UNCHANGED <<svcVars, hostVars, searchInput, searchConfig, displayVars, rankVars, ctxVars>>

\* a click on a toggle button: the new configuration is posted, and the
\* query in the input is searched again unless it is blank
ToggleClick(newConfig, updates) ==
  /\ Len(toHost) + 1 < MaxQueue
  /\ ~IsBlankQuery(searchInput) => CanRequest
  /\ searchConfig' = newConfig
  /\ toHost' = toHost \o <<[command |-> "updateConfig", config |-> updates]>>
                  \o (IF IsBlankQuery(searchInput) THEN <<>>
                      ELSE <<SearchMessage(searchInput)>>)
  /\ UNCHANGED <<svcVars, hostVars, searchInput, searchTimeout, displayVars, rankVars, ctxVars>>

\* the button shows case-insensitive search: the configuration holds the
\* negation of its state
CaseSensitiveToggle ==
  LET toggled == [searchConfig EXCEPT !.caseSensitive = ~searchConfig.caseSensitive]
  IN  ToggleClick(toggled, [k \in {"caseSensitive"} |-> ~toggled.caseSensitive])

WholeWordToggle ==
  LET toggled == [searchConfig EXCEPT !.wholeWord = ~searchConfig.wholeWord]
  IN  ToggleClick(toggled, [k \in {"wholeWord"} |-> toggled.wholeWord])

\* onDidReceiveMessage: 'updateConfig' stores the configuration; 'search'
\* runs handleSearch to its await, and through it when the query is blank,
\* for performSearch then returns without waiting for anything
OnDidReceiveMessage ==
  /\ toHost # <<>>
  /\ Head(toHost).command \in {"updateConfig", "search"}
  /\ toHost' = Tail(toHost)
  /\ LET message == Head(toHost)
     IN  IF message.command = "updateConfig"
         THEN /\ updateTextSearchConfig(message.config)
              /\ UNCHANGED hostVars
         ELSE /\ currentSearchQuery' = message.query
              /\ UNCHANGED <<config, searchType, storeVars>>
              /\ IF IsBlankQuery(message.query)
                 THEN /\ searches' = Append(searches,
                            [query |-> message.query, resolved |-> TRUE, result |-> <<>>])
                      /\ filteredResults' = <<>>
                      /\ toWebview' = Append(toWebview, UpdateResultsMessage(<<>>, message.query))
                 ELSE /\ searches' = Append(searches,
                            [query |-> message.query, resolved |-> FALSE, result |-> <<>>])
                      /\ UNCHANGED <<filteredResults, toWebview>>
  /\ UNCHANGED <<files, maxResults, maxFileSize, query, isFile, pc, batchStart,
                 batchResults, results, returned, reads>>
  /\ UNCHANGED <<initialResults, fuzzyQuery, fuzzyFilteredResults, walked, fileMaxResults,
                 fileQuery, fileSearchResults, walks, gitignore, relativePath,
                 ignorePatterns, ignored, walkVars, historyVars>>
  /\ UNCHANGED <<searchInput, searchTimeout, searchConfig, displayVars, ctxVars>>

\* handleSearch after its await: the onSearch promise of search i has
\* resolved, its results are stored and posted
SearchResolved(i) ==
  /\ i \in DOMAIN searches
  /\ ~searches[i].resolved
  /\ LET searchResults == performSearch(searches[i].query)
     IN  /\ searches' = [searches EXCEPT ![i] = [@ EXCEPT !.resolved = TRUE,
                                                         !.result = searchResults]]
         /\ filteredResults' = searchResults
         /\ toWebview' = Append(toWebview,
                                UpdateResultsMessage(searchResults, currentSearchQuery))
  /\ UNCHANGED <<svcVars, searchType, currentSearchQuery, webviewVars, rankVars, ctxVars>>

PanelFiles ==
  << [name |-> "f1", content |-> <<"a", "a", "a">>, readable |-> TRUE],
     [name |-> "f2", content |-> <<"A", " ", "a">>, readable |-> TRUE] >>

PanelSpecInit ==
  /\ searchType \in {"file", "folder"}
  /\ files = PanelFiles
  /\ config \in Configs
  /\ maxResults = FolderDisplayLimit
  /\ maxFileSize = MaxContentLen
  /\ isFile = (searchType = "file")
  /\ ServiceIdle
  /\ PanelInit
  /\ maximizedLayout = FALSE
  /\ loaded = <<>>
  /\ RankIdle

PanelNext ==
  \/ \E q \in PanelQueries : SearchInput(q)
  \/ SearchTimeout
  \/ CaseSensitiveToggle
  \/ WholeWordToggle
  \/ OnDidReceiveMessage
  \/ \E i \in 1..MaxSearches : SearchResolved(i)
  \/ WebviewUpdateResults

PanelSpec == PanelSpecInit /\ [][PanelNext]_vars

(***************************************************************************)
(* RankSpec: the fuzzy panel filters its candidates for one query after    *)
(* another, or the file search is queried for names.                       *)
(***************************************************************************)
RankTexts == {<<"a">>, <<"a", "b">>}
RankPaths == {<<"a">>, <<"d", "/", "b">>}
RankQueries == {<<>>, <<" ">>, <<"a">>, <<"b">>, <<"a", "b">>, <<"b", "a">>, <<"a", "a">>}

Candidates ==
  {[file |-> f, line |-> l, column |-> 1, text |-> t, context |-> <<t>>] :
     f \in RankPaths, l \in 1..MaxLine, t \in RankTexts}

RECURSIVE CandidateLists(_)
CandidateLists(n) ==
  IF n = 0 THEN {<<>>}
  ELSE LET shorter == CandidateLists(n - 1)
       IN  shorter \cup
           {Append(rs, c) : rs \in {t \in shorter : Len(t) = n - 1}, c \in Candidates}

WalkedFiles ==
  << [name |-> "b", path |-> <<"b">>],
     [name |-> "a", path |-> <<"a">>],
     [name |-> "a", path |-> <<"d", "/", "a">>],
     [name |-> "b", path |-> <<"d", "/", "b">>] >>

\* FileSearchService.searchFiles
searchFiles(fs, q, resolved) ==
  IF IsBlankQuery(q) THEN resolved = Take(fs, fileMaxResults)
  ELSE \E ranked \in FuseSearch(fs) : resolved = Take(ranked, fileMaxResults)

\* RankSpec starts with a fuzzy panel just constructed on its candidates, or
\* with a file search panel just opened on a folder
RankInit ==
  /\ files = <<>>
  /\ config = [caseSensitive |-> FALSE, wholeWord |-> FALSE]
  /\ maxResults = FolderDisplayLimit
  /\ maxFileSize = MaxContentLen
  /\ isFile = FALSE
  /\ searchType = "folder"
  /\ ServiceIdle
  /\ PanelInit
  /\ maximizedLayout = FALSE
  /\ loaded = <<>>
  /\ fuzzyQuery = <<>>
  /\ fileQuery = <<>>
  /\ \/ /\ initialResults \in {rs \in CandidateLists(MaxCandidates) : Injective(rs)}
        /\ walked = <<>>
        /\ fileMaxResults = MaxWalked
        /\ walks = 0
     \/ /\ initialResults = <<>>
        /\ walked \in {t \in Arrangements(WalkedFiles, MaxWalked) : Injective(t) /\ t # <<>>}
        /\ fileMaxResults \in {MaxWalked - 1, MaxWalked}
        /\ walks = 1
  /\ fuzzyFilteredResults = fuzzyFilter(initialResults, <<>>)
  /\ searchFiles(discoverFiles, <<>>, fileSearchResults)
  /\ IgnoreIdle
  /\ PrefIdle

\* SearchWebviewPanel.handleSearch of the fuzzy panel
FuzzyHandleSearch(q) ==
  /\ initialResults # <<>>
  /\ fuzzyQuery' = q
  /\ fuzzyFilteredResults' = fuzzyFilter(initialResults, q)
  /\ UNCHANGED <<initialResults, walked, fileMaxResults, fileQuery, fileSearchResults, walks>>
  /\ UNCHANGED <<gitignore, relativePath, ignorePatterns, ignored, walkVars, prefVars>>
  /\ UNCHANGED <<svcVars, hostVars, webviewVars, ctxVars>>

\* FileSearchProvider.performSearch: searchFiles discovers the files again,
\* and discoverFiles walks the folder
SearchFiles(q) ==
  /\ walked # <<>>
  /\ walks < MaxWalks
  /\ walks' = walks + 1
  /\ fileQuery' = q
  /\ searchFiles(discoverFiles, q, fileSearchResults')
  /\ UNCHANGED <<initialResults, fuzzyQuery, fuzzyFilteredResults, walked, fileMaxResults>>
  /\ UNCHANGED <<gitignore, relativePath, ignorePatterns, ignored, walkVars, prefVars>>
  /\ UNCHANGED <<svcVars, hostVars, webviewVars, ctxVars>>

RankNext ==
  \/ \E q \in RankQueries : FuzzyHandleSearch(q)
  \/ \E q \in RankQueries : SearchFiles(q)

RankSpec == RankInit /\ [][RankNext]_vars

(***************************************************************************)
(* GapSpec: the fuzzy panel on candidates one of which is a long line, the *)
(* characters of a query far apart in it.                                  *)
(***************************************************************************)
LongText == [i \in 1..MaxTextLen |-> IF i = MaxTextLen THEN "b" ELSE "-"]

GapCandidates ==
  {[file |-> <<"a">>, line |-> 1, column |-> 1, text |-> LongText, context |-> <<LongText>>]}
    \cup {[file |-> <<"a">>, line |-> l, column |-> 1, text |-> t, context |-> <<t>>] :
            l \in 1..MaxLine, t \in {<<"b">>, <<"-", "b">>}}

GapLists ==
  {<<c>> : c \in GapCandidates}
    \cup {t \in {<<c, d>> : c \in GapCandidates, d \in GapCandidates} : t[1] # t[2]}

GapQueries == {<<>>, <<"a">>, <<"b">>, <<"a", "b">>, <<"b", "a">>}

GapInit ==
  /\ files = <<>>
  /\ config = [caseSensitive |-> FALSE, wholeWord |-> FALSE]
  /\ maxResults = FolderDisplayLimit
  /\ maxFileSize = MaxContentLen
  /\ isFile = FALSE
  /\ searchType = "folder"
  /\ ServiceIdle
  /\ PanelInit
  /\ maximizedLayout = FALSE
  /\ loaded = <<>>
  /\ initialResults \in GapLists
  /\ fuzzyQuery = <<>>
  /\ fuzzyFilteredResults = fuzzyFilter(initialResults, <<>>)
  /\ walked = <<>>
  /\ fileMaxResults = MaxWalked
  /\ fileQuery = <<>>
  /\ fileSearchResults = <<>>
  /\ walks = 0
  /\ IgnoreIdle
  /\ PrefIdle

GapNext == \E q \in GapQueries : FuzzyHandleSearch(q)

GapSpec == GapInit /\ [][GapNext]_vars

(***************************************************************************)
(* LoadSpec: a caller holds a result of the scan of one file and loads its *)
(* context, again and again, with loadContextForResult, and the file       *)
(* search loads the preview of the file with getFileContext; meanwhile the *)
(* file loses lines or can no longer be read.                              *)
(***************************************************************************)
LoadLineTexts == {<<"a">>, <<"b">>}

RECURSIVE LineLists(_)
LineLists(n) ==
  IF n = 0 THEN {<<>>}
  ELSE LET shorter == LineLists(n - 1)
       IN  shorter \cup
           {Append(ls, t) : ls \in {u \in shorter : Len(u) = n - 1}, t \in LoadLineTexts}

\* lines.join("\n")
RECURSIVE Join(_)
Join(lines) ==
  IF Len(lines) = 0 THEN <<>>
  ELSE IF Len(lines) = 1 THEN lines[1]
  ELSE lines[1] \o <<NL>> \o Join(Tail(lines))

\* what a load did, for lastLoad
LoadRecord(mode, file, targetLine, contextSize, context) ==
  [mode |-> mode, readable |-> file.readable, lines |-> Split(file.content),
   targetLine |-> targetLine, contextSize |-> contextSize, context |-> context]

LoadInit ==
  /\ searchType = "file"
  /\ isFile = TRUE
  /\ config = [caseSensitive |-> FALSE, wholeWord |-> FALSE]
  /\ maxResults = FolderDisplayLimit
  /\ maxFileSize = MaxContentLen
  /\ ServiceIdle
  /\ PanelInit
  /\ RankIdle
  /\ maximizedLayout \in BOOLEAN
  /\ \E lines \in LineLists(MaxContextLines) \ {<<>>} :
       \E t \in 1..Len(lines) :
         /\ files = <<[name |-> "f1", content |-> Join(lines), readable |-> TRUE]>>
         /\ loaded = <<MakeResult("f1", t - 1, 0, lines[t])>>

\* SearchService.loadContextForResult, called on the result the last call
\* returned
LoadContextForResult ==
  /\ contextReads < MaxLoads
  /\ LET result == loaded[1]
         withContext == loadContextForResult(result, maximizedLayout)
     IN  /\ loaded' = <<withContext>>
         /\ IF AlreadyLoaded(result)
            THEN UNCHANGED <<contextReads, lastLoad>>
            ELSE /\ contextReads' = contextReads + 1
                 /\ lastLoad' = LoadRecord("text", FileAt(result.file), result.line,
                                           getContextSize(maximizedLayout),
                                           withContext.context)
  /\ UNCHANGED <<svcVars, hostVars, webviewVars, rankVars>>
  /\ UNCHANGED <<loadRequests, loadHandled, loading, contextRequested, maximizedLayout,
                 lastEvent>>

\* FileSearchProvider.loadContextForResult: getFileContext of the file
GetFileContext ==
  /\ lastLoad' = LoadRecord("file", files[1], 0, FileContextSize,
                            getFileContext(files[1], FileContextSize))
  /\ UNCHANGED <<svcVars, hostVars, webviewVars, rankVars>>
  /\ UNCHANGED <<contextReads, loadRequests, loadHandled, loading, contextRequested, loaded,
                 maximizedLayout, lastEvent>>

\* the file is deleted, or the permission to read it is revoked
FileVanishes ==
  /\ files[1].readable
  /\ files' = [files EXCEPT ![1].readable = FALSE]
  /\ UNCHANGED <<config, maxResults, maxFileSize, query, isFile, pc, batchStart,
                 batchResults, results, returned, reads>>
  /\ UNCHANGED <<hostVars, webviewVars, rankVars, ctxVars>>

\* the file is saved with its first n lines only
FileTruncated(n) ==
  /\ files[1].readable
  /\ n < Len(Split(files[1].content))
  /\ files' = [files EXCEPT ![1].content = Join(SubSeq(Split(files[1].content), 1, n))]
  /\ UNCHANGED <<config, maxResults, maxFileSize, query, isFile, pc, batchStart,
                 batchResults, results, returned, reads>>
  /\ UNCHANGED <<hostVars, webviewVars, rankVars, ctxVars>>

LoadNext ==
  \/ LoadContextForResult
  \/ GetFileContext
  \/ FileVanishes
  \/ \E n \in 1..MaxContextLines : FileTruncated(n)

LoadSpec == LoadInit /\ [][LoadNext]_vars

(***************************************************************************)
(* BrowseSpec: a folder search panel whose user types queries, moves the   *)
(* selection, asks for more results and looks at the context of the        *)
(* selected result.  The loadContext messages are kept apart from the      *)
(* other messages of the webview, in loadRequests.                         *)
(***************************************************************************)
\* an index of filteredResults that was never assigned
Hole == [hole |-> TRUE]

IsHole(result) == DOMAIN result = {"hole"}

\* array[index] = value, which fills the indices in between with holes
AssignAt(array, index, value) ==
  IF index < Len(array) THEN [array EXCEPT ![index + 1] = value]
  ELSE array \o [k \in 1..(index - Len(array)) |-> Hole] \o <<value>>

\* how many ResultSets the panel has had: handleSearch has replaced
\* filteredResults once for each search that has resolved
ResultSets == Cardinality({i \in DOMAIN searches : searches[i].resolved})

\* handleLoadContext up to its await: the result at the index of the message
\* is handed to onLoadContext, which reads the file unless the result has a
\* loaded context; an index out of range, or one that holds no result, is
\* passed over
HandleLoadContext ==
  /\ loadHandled < Len(loadRequests)
  /\ loadHandled' = loadHandled + 1
  /\ LET index == loadRequests[loadHandled + 1].index
     IN  IF index < Len(filteredResults) /\ ~IsHole(filteredResults[index + 1])
         THEN LET result == filteredResults[index + 1]
              IN  /\ loading' = Append(loading, [index |-> index, result |-> result,
                                                 isVerticalLayout |-> maximizedLayout,
                                                 resultSet |-> ResultSets])
                  /\ contextReads' = IF AlreadyLoaded(result) THEN contextReads
                                     ELSE contextReads + 1
         ELSE UNCHANGED <<loading, contextReads>>
  /\ UNCHANGED <<svcVars, hostVars, webviewVars, rankVars>>
  /\ UNCHANGED <<loadRequests, contextRequested, loaded, maximizedLayout, lastLoad, lastEvent>>

\* handleLoadContext after its await: the result with its context is stored
\* at the index and the context is posted
LoadContextDone(i) ==
  /\ i \in DOMAIN loading
  /\ LET call == loading[i]
         resultWithContext == loadContextForResult(call.result, call.isVerticalLayout)
     IN  /\ filteredResults' = AssignAt(filteredResults, call.index, resultWithContext)
         /\ toWebview' = Append(toWebview, [command |-> "updateContext", index |-> call.index,
                                            context |-> resultWithContext.context])
         /\ lastLoad' = IF AlreadyLoaded(call.result) THEN lastLoad
                        ELSE LoadRecord("text", FileAt(call.result.file), call.result.line,
                                        getContextSize(call.isVerticalLayout),
                                        resultWithContext.context)
  /\ loading' = [k \in 1..(Len(loading) - 1) |-> IF k < i THEN loading[k] ELSE loading[k + 1]]
  /\ UNCHANGED <<svcVars, searchType, currentSearchQuery, searches, webviewVars, rankVars>>
  /\ UNCHANGED <<contextReads, loadRequests, loadHandled, contextRequested, loaded,
                 maximizedLayout, lastEvent>>

\* the webview's message listener on an updateContext message
WebviewUpdateContext ==
  /\ toWebview # <<>>
  /\ Head(toWebview).command = "updateContext"
  /\ toWebview' = Tail(toWebview)
  /\ LET message == Head(toWebview)
         updated == [wvResults EXCEPT ![message.index + 1].context = message.context]
     IN  IF message.index < Len(wvResults)
         THEN /\ wvResults' = updated
              /\ UpdateContext(updated, selectedIndex, contextRequested)
              /\ lastEvent' = Event("updateContext", message,
                                    ContextPosts(updated, selectedIndex, contextRequested))
         ELSE /\ lastEvent' = Event("updateContext", message, <<>>)
              /\ UNCHANGED <<wvResults, contextRequested, loadRequests>>
  /\ UNCHANGED <<svcVars, searchType, currentSearchQuery, filteredResults, searches,
                 inputVars, rankVars>>
  /\ UNCHANGED <<wvSearchQuery, wvMaxResults, selectedIndex, displayedResults, resultCount>>
  /\ UNCHANGED <<contextReads, loadHandled, loading, loaded, maximizedLayout, lastLoad>>

\* an ArrowDown that moves the selection and shows no further results
ArrowDownShowsNoMore ==
  /\ selectedIndex < Len(wvResults) - 1
  /\ selectedIndex' = selectedIndex + 1
  /\ UpdateContext(wvResults, selectedIndex + 1, contextRequested)
  /\ lastEvent' = Event("ArrowDown", <<>>,
                        ContextPosts(wvResults, selectedIndex + 1, contextRequested))
  /\ UNCHANGED <<svcVars, hostVars, inputVars, rankVars>>
  /\ UNCHANGED <<wvResults, wvSearchQuery, wvMaxResults, displayedResults, resultCount>>
  /\ UNCHANGED <<contextReads, loadHandled, loading, loaded, maximizedLayout, lastLoad>>

\* the keydown listener on ArrowDown: the selection moves down, more results
\* are shown when it comes near the last one shown, and updateSelection ends
\* with updateContext
ArrowDown ==
  /\ selectedIndex < Len(wvResults) - 1
  /\ selectedIndex' = selectedIndex + 1
  /\ displayedResults' =
       IF selectedIndex + 1 >= displayedResults - AutoLoadMargin
            /\ displayedResults < Len(wvResults)
       THEN Min(displayedResults + LoadMoreBatchSize, Len(wvResults))
       ELSE displayedResults
  /\ UpdateContext(wvResults, selectedIndex + 1, contextRequested)
  /\ lastEvent' = Event("ArrowDown", <<>>,
                        ContextPosts(wvResults, selectedIndex + 1, contextRequested))
  /\ UNCHANGED <<svcVars, hostVars, inputVars, rankVars>>
  /\ UNCHANGED <<wvResults, wvSearchQuery, wvMaxResults, resultCount>>
  /\ UNCHANGED <<contextReads, loadHandled, loading, loaded, maximizedLayout, lastLoad>>

\* the keydown listener on ArrowUp
ArrowUp ==
  /\ selectedIndex > 0
  /\ selectedIndex' = selectedIndex - 1
  /\ UpdateContext(wvResults, selectedIndex - 1, contextRequested)
  /\ lastEvent' = Event("ArrowUp", <<>>,
                        ContextPosts(wvResults, selectedIndex - 1, contextRequested))
  /\ UNCHANGED <<svcVars, hostVars, inputVars, rankVars>>
  /\ UNCHANGED <<wvResults, wvSearchQuery, wvMaxResults, displayedResults, resultCount>>
  /\ UNCHANGED <<contextReads, loadHandled, loading, loaded, maximizedLayout, lastLoad>>

\* a loadMoreResults that also returns the selection to the first result
LoadMoreResultsFromTop ==
  /\ Len(wvResults) > displayedResults
  /\ displayedResults' = Min(displayedResults + LoadMoreBatchSize, Len(wvResults))
  /\ selectedIndex' = 0
  /\ resultCount' = ResultCountText(wvResults, wvMaxResults)
  /\ lastEvent' = Event("loadMoreResults", <<>>, <<>>)
  /\ UNCHANGED <<svcVars, hostVars, inputVars, rankVars>>
  /\ UNCHANGED <<wvResults, wvSearchQuery, wvMaxResults>>
  /\ UNCHANGED <<contextReads, loadRequests, loadHandled, loading, contextRequested, loaded,
                 maximizedLayout, lastLoad>>

\* loadMoreResults, the onclick of the button that updateResultsList shows
\* while there are more results than are displayed
LoadMoreResults ==
  /\ Len(wvResults) > displayedResults
  /\ displayedResults' = Min(displayedResults + LoadMoreBatchSize, Len(wvResults))
  /\ resultCount' = ResultCountText(wvResults, wvMaxResults)
  /\ lastEvent' = Event("loadMoreResults", <<>>, <<>>)
  /\ UNCHANGED <<svcVars, hostVars, inputVars, rankVars>>
  /\ UNCHANGED <<wvResults, wvSearchQuery, wvMaxResults, selectedIndex>>
  /\ UNCHANGED <<contextReads, loadRequests, loadHandled, loading, contextRequested, loaded,
                 maximizedLayout, lastLoad>>

BrowseFiles ==
  << [name |-> "f1", content |-> <<"a", NL, "a">>, readable |-> TRUE],
     [name |-> "f2", content |-> <<" ", "a">>, readable |-> TRUE] >>

BrowseQueries == {<<>>, <<"a">>, <<"A">>}

BrowseInit ==
  /\ searchType = "folder"
  /\ isFile = FALSE
  /\ files = BrowseFiles
  /\ config = [caseSensitive |-> FALSE, wholeWord |-> FALSE]
  /\ maxResults = MaxContextLines
  /\ maxFileSize = MaxContextLines + 1
  /\ ServiceIdle
  /\ PanelInit
  /\ RankIdle
  /\ maximizedLayout \in BOOLEAN
  /\ loaded = <<>>

BrowseNext ==
  \/ \E q \in BrowseQueries :
       Len(searches) + Len(toHost) < MaxBrowseSearches /\ SearchInput(q)
  \/ OnDidReceiveMessage
  \/ \E i \in 1..MaxSearches : SearchResolved(i)
  \/ WebviewUpdateResults
  \/ ArrowDown
  \/ ArrowUp
  \/ LoadMoreResults
  \/ HandleLoadContext
  \/ \E i \in 1..MaxContextLines : LoadContextDone(i)
  \/ WebviewUpdateContext

BrowseSpec == BrowseInit /\ [][BrowseNext]_vars

(***************************************************************************)
(* SelectSpec: the selection and the paging of the result list under       *)
(* searches, the arrow keys, the load-more button and clicks.              *)
(***************************************************************************)
\* the results updateResultsList renders: results.slice(0, resultsToShow)
ResultsToShow == Min(displayedResults, Len(wvResults))

\* navigateToResult, the onclick of a rendered result: the result is
\* selected and the host told to open it, which changes nothing the
\* webview holds
NavigateToResult(index) ==
  /\ index < ResultsToShow
  /\ selectedIndex' = index
  /\ UpdateContext(wvResults, index, contextRequested)
  /\ lastEvent' = Event("click", <<>>,
                        ContextPosts(wvResults, index, contextRequested)
                          \o <<[command |-> "select", index |-> index]>>)
  /\ UNCHANGED <<svcVars, hostVars, inputVars, rankVars>>
  /\ UNCHANGED <<wvResults, wvSearchQuery, wvMaxResults, displayedResults, resultCount>>
  /\ UNCHANGED <<contextReads, loadHandled, loading, loaded, maximizedLayout, lastLoad>>

SelectNext ==
  \/ \E q \in BrowseQueries :
       Len(searches) + Len(toHost) < MaxBrowseSearches /\ SearchInput(q)
  \/ OnDidReceiveMessage
  \/ \E i \in 1..MaxSearches : SearchResolved(i)
  \/ WebviewUpdateResults
  \/ ArrowDown
  \/ ArrowUp
  \/ LoadMoreResults
  \/ \E index \in 0..(MaxContextLines - 1) : NavigateToResult(index)

SelectSpec == BrowseInit /\ [][SelectNext]_vars

(***************************************************************************)
(* ExactSpec: the fuzzy panel on two candidates each of which holds a run  *)
(* of one letter, at the start of its line or far into it, queried for a   *)
(* run of that letter.                                                     *)
(***************************************************************************)
Run(c, n) == [i \in 1..n |-> c]

ExactCandidates ==
  {[file |-> <<"a">>, line |-> 1, column |-> 1, text |-> t, context |-> <<t>>] :
     t \in {Run("-", k) \o Run("a", n) : k \in {0, ExactPad}, n \in 1..MaxExactQueryLen}}

ExactLists ==
  {t \in {<<c, d>> : c \in ExactCandidates, d \in ExactCandidates} :
     Len(t[1].text) < Len(t[2].text)}

ExactQueries == {Run("a", n) : n \in 1..MaxExactQueryLen}

ExactInit ==
  /\ files = <<>>
  /\ config = [caseSensitive |-> FALSE, wholeWord |-> FALSE]
  /\ maxResults = FolderDisplayLimit
  /\ maxFileSize = MaxContentLen
  /\ isFile = FALSE
  /\ searchType = "folder"
  /\ ServiceIdle
  /\ PanelInit
  /\ maximizedLayout = FALSE
  /\ loaded = <<>>
  /\ initialResults \in ExactLists
  /\ fuzzyQuery = <<>>
  /\ fuzzyFilteredResults = fuzzyFilter(initialResults, <<>>)
  /\ walked = <<>>
  /\ fileMaxResults = MaxWalked
  /\ fileQuery = <<>>
  /\ fileSearchResults = <<>>
  /\ walks = 0
  /\ IgnoreIdle
  /\ PrefIdle

ExactNext == \E q \in ExactQueries : fuzzyQuery = <<>> /\ FuzzyHandleSearch(q)

ExactSpec == ExactInit /\ [][ExactNext]_vars

(***************************************************************************)
(* LineSpec: the panel of BrowseSpec on a folder with one file, of one     *)
(* line or of several.                                                     *)
(***************************************************************************)
LineContents == {<<"a">>, <<" ", "a">>, <<"a", NL, "a">>}

LineInit ==
  /\ searchType = "folder"
  /\ isFile = FALSE
  /\ \E c \in LineContents : files = <<[name |-> "f1", content |-> c, readable |-> TRUE]>>
  /\ config = [caseSensitive |-> FALSE, wholeWord |-> FALSE]
  /\ maxResults = MaxContextLines
  /\ maxFileSize = MaxContextLines + 1
  /\ ServiceIdle
  /\ PanelInit
  /\ RankIdle
  /\ maximizedLayout \in BOOLEAN
  /\ loaded = <<>>

\* the results of one file are all shown: nothing more is there to load
LineNext ==
  \/ \E q \in BrowseQueries :
       Len(searches) + Len(toHost) < MaxBrowseSearches /\ SearchInput(q)
  \/ OnDidReceiveMessage
  \/ \E i \in 1..MaxSearches : SearchResolved(i)
  \/ WebviewUpdateResults
  \/ ArrowDown
  \/ ArrowUp
  \/ HandleLoadContext
  \/ \E i \in 1..MaxContextLines : LoadContextDone(i)
  \/ WebviewUpdateContext

LineSpec == LineInit /\ [][LineNext]_vars

(***************************************************************************)
(* IgnoreSpec: loadIgnorePatterns on a folder with some .gitignore, or     *)
(* none, and shouldIgnore on a path of the folder.                         *)
(***************************************************************************)
IgnoreChars == {"*", "!", "#"}

\* the lines of a .gitignore: short ones, the default patterns after "!",
\* and some more that are about the paths
IgnoreLines ==
  Strings(IgnoreChars, MaxIgnoreLineLen)
    \cup {<<"!">> \o excludePatterns[i] : i \in 1..Len(excludePatterns)}
    \cup { <<"!", "d", "i", "s", "t">>,
           <<"!", "d", "i", "s", "t", "/", "a">>,
           <<"!", "a", ".", "l", "o", "g">>,
           <<" ", "!", "*", ".", "l", "o", "g", " ">>,
           <<"a", "/", "*", "*">>,
           <<"*", "*", "/", "a">>,
           <<"a", "/", "*", "*", "/", "a">>,
           <<"a", ".", "*">> }

IgnoreContents ==
  {Join(lines) : lines \in UNION {[1..n -> IgnoreLines] : n \in 1..MaxIgnoreLines}}

IgnorePaths ==
  { <<"a">>,
    <<"a", ".", "l", "o", "g">>,
    <<"a", "l", "o", "g">>,
    <<"a", "/", "a", ".", "l", "o", "g">>,
    <<"d", "i", "s", "t">>,
    <<"d", "i", "s", "t", "/", "a">>,
    <<"d", "i", "s", "t", "\\", "a">>,
    <<"a", "d", "i", "s", "t", "/", "a">>,
    <<"a", "/", "d", "i", "s", "t">>,
    <<".", "g", "i", "t", "/", "a">>,
    <<"b", "u", "i", "l", "d", "/", "a", "/", "a">>,
    <<"n", "o", "d", "e", "_", "m", "o", "d", "u", "l", "e", "s", "/", "a">>,
    <<"!", "d", "i", "s", "t", "/", "a">>,
    <<"*", ".", "l", "o", "g">>,
    <<"a", "/", "a", "/", "a">>,
    <<"a", "/", "a", "/", "a", "/", "a">> }

IgnoreInit ==
  /\ files = <<>>
  /\ config = [caseSensitive |-> FALSE, wholeWord |-> FALSE]
  /\ maxResults = FolderDisplayLimit
  /\ maxFileSize = MaxContentLen
  /\ isFile = FALSE
  /\ searchType = "folder"
  /\ ServiceIdle
  /\ PanelInit
  /\ maximizedLayout = FALSE
  /\ loaded = <<>>
  /\ initialResults = <<>>
  /\ fuzzyQuery = <<>>
  /\ fuzzyFilteredResults = <<>>
  /\ walked = <<>>
  /\ fileMaxResults = MaxWalked
  /\ fileQuery = <<>>
  /\ fileSearchResults = <<>>
  /\ walks = 0
  /\ gitignore \in {NoGitignore}
                    \cup {[readable |-> TRUE, content |-> c] : c \in IgnoreContents}
  /\ relativePath \in IgnorePaths
  /\ ignorePatterns = <<>>
  /\ ignored = <<>>
  /\ WalkIdle
  /\ PrefIdle

\* discoverFiles up to the walk: the patterns are loaded
LoadIgnorePatterns ==
  /\ ignorePatterns = <<>>
  /\ ignorePatterns' = loadIgnorePatterns(gitignore)
  /\ UNCHANGED <<gitignore, relativePath, ignored, walkVars, prefVars>>
  /\ UNCHANGED <<initialResults, fuzzyQuery, fuzzyFilteredResults, walked, fileMaxResults,
                 fileQuery, fileSearchResults, walks>>
  /\ UNCHANGED <<svcVars, hostVars, webviewVars, ctxVars>>

\* walkDirectory comes to the path
ShouldIgnore ==
  /\ ignorePatterns # <<>>
  /\ ignored = <<>>
  /\ ignored' = <<shouldIgnore(relativePath, ignorePatterns)>>
  /\ UNCHANGED <<gitignore, relativePath, ignorePatterns, walkVars, prefVars>>
  /\ UNCHANGED <<initialResults, fuzzyQuery, fuzzyFilteredResults, walked, fileMaxResults,
                 fileQuery, fileSearchResults, walks>>
  /\ UNCHANGED <<svcVars, hostVars, webviewVars, ctxVars>>

IgnoreNext == LoadIgnorePatterns \/ ShouldIgnore

IgnoreSpec == IgnoreInit /\ [][IgnoreNext]_vars

(***************************************************************************)
(* SizeSpec: searchWithQuery on one file, of a size below, at or above     *)
(* maxFileSize (the characters of a content are one byte each).            *)
(***************************************************************************)
SizeContents == Strings({"a", "b"}, MaxContentLen)
SizeQueries == {<<"a">>, <<"b">>}

SizeInit ==
  /\ \E c \in SizeContents : files = <<[name |-> "f1", content |-> c, readable |-> TRUE]>>
  /\ config = [caseSensitive |-> FALSE, wholeWord |-> FALSE]
  /\ maxResults = PerFileCap
  /\ maxFileSize \in 0..MaxContentLen
  /\ isFile = TRUE
  /\ searchType = "file"
  /\ ServiceIdle
  /\ PanelInit
  /\ maximizedLayout = FALSE
  /\ loaded = <<>>
  /\ RankIdle

SizeNext ==
  \/ \E q \in SizeQueries :
       SearchWithQuery(q, TRUE) /\ UNCHANGED <<hostVars, webviewVars, rankVars, ctxVars>>
  \/ FileSearchDone

SizeSpec == SizeInit /\ [][SizeNext]_vars

(***************************************************************************)
(* WalkSpec: discoverFiles of a text search or of a file search on a       *)
(* folder some directories of which cannot be read and some entries of     *)
(* which cannot be examined.                                               *)
(***************************************************************************)
\* the entries stat may fail for
StatFailures == {<<NameA>>, <<NameTs>>, <<NameA, NameA, NameTs>>}

WalkGitignores ==
  {NoGitignore, [readable |-> TRUE, content |-> NameA \o <<"/">> \o NameDist]}

WalkInit ==
  /\ files = <<>>
  /\ config = [caseSensitive |-> FALSE, wholeWord |-> FALSE]
  /\ maxResults = FolderDisplayLimit
  /\ maxFileSize = MaxContentLen
  /\ isFile = FALSE
  /\ searchType = "folder"
  /\ ServiceIdle
  /\ PanelInit
  /\ maximizedLayout = FALSE
  /\ loaded = <<>>
  /\ initialResults = <<>>
  /\ fuzzyQuery = <<>>
  /\ fuzzyFilteredResults = <<>>
  /\ walked = <<>>
  /\ fileMaxResults = MaxWalked
  /\ fileQuery = <<>>
  /\ fileSearchResults = <<>>
  /\ walks = 0
  /\ gitignore \in WalkGitignores
  /\ relativePath = <<>>
  /\ ignorePatterns = <<>>
  /\ ignored = <<>>
  /\ PrefIdle
  /\ scan = NoScan
  /\ unreadableDirs \in SUBSET WalkDirs
  /\ unstatable \in SUBSET StatFailures
  /\ walkMode = "none"
  /\ discovered = <<>>

\* SearchService.discoverFiles
DiscoverFiles ==
  /\ walkMode = "none"
  /\ walkMode' = "text"
  /\ ignorePatterns' = loadIgnorePatterns(gitignore)
  /\ discovered' = walkDirectory(<<>>, loadIgnorePatterns(gitignore), 0, "text")
  /\ UNCHANGED <<gitignore, relativePath, ignored, unreadableDirs, unstatable, scan>>
  /\ UNCHANGED <<initialResults, fuzzyQuery, fuzzyFilteredResults, walked, fileMaxResults,
                 fileQuery, fileSearchResults, walks, prefVars>>
  /\ UNCHANGED <<svcVars, hostVars, webviewVars, ctxVars>>

\* FileSearchService.discoverFiles, before it sorts the files by name
FileDiscoverFiles ==
  /\ walkMode = "none"
  /\ walkMode' = "file"
  /\ ignorePatterns' = loadFileIgnorePatterns(gitignore)
  /\ discovered' = walkDirectory(<<>>, loadFileIgnorePatterns(gitignore), 0, "file")
  /\ UNCHANGED <<gitignore, relativePath, ignored, unreadableDirs, unstatable, scan>>
  /\ UNCHANGED <<initialResults, fuzzyQuery, fuzzyFilteredResults, walked, fileMaxResults,
                 fileQuery, fileSearchResults, walks, prefVars>>
  /\ UNCHANGED <<svcVars, hostVars, webviewVars, ctxVars>>

WalkNext == DiscoverFiles \/ FileDiscoverFiles

WalkSpec == WalkInit /\ [][WalkNext]_vars

(***************************************************************************)
(* HistorySpec: a panel whose webview has loaded the history an earlier    *)
(* panel saved, and adds one query after another to it.                    *)
(***************************************************************************)
HistoryQueries == Strings({"a", " "}, MaxHistoryQueryLen)

\* the histories addToHistory can have left
SavedHistories ==
  {h \in Strings(HistoryQueries, MaxHistorySize) :
     /\ \A i \in 1..Len(h) : Trim(h[i]) # <<>>
     /\ \A i, j \in 1..Len(h) : h[i] = h[j] => i = j}

HistoryInit ==
  /\ files = <<>>
  /\ config = getDefaultConfig
  /\ maxResults = FolderDisplayLimit
  /\ maxFileSize = MaxContentLen
  /\ isFile = FALSE
  /\ searchType = "folder"
  /\ ServiceIdle
  /\ PanelInit
  /\ maximizedLayout = FALSE
  /\ loaded = <<>>
  /\ FolderIdle
  /\ StoreIdle
  /\ searchHistory \in SavedHistories
  /\ historyIndex = -1
  /\ historyFile = IF searchHistory = <<>> THEN NoHistoryFile ELSE <<searchHistory>>
  /\ lastAdded = <<>>

\* a call of addToHistory, which ends with saveSearchHistory
AddToHistory(q) ==
  /\ Len(toHost) < MaxQueue
  /\ searchHistory' = addToHistory(searchHistory, q)
  /\ IF q = <<>> \/ Trim(q) = <<>>
     THEN UNCHANGED <<toHost, lastAdded>>
     ELSE /\ toHost' = Append(toHost, [command |-> "saveHistory",
                                       history |-> searchHistory'])
          /\ lastAdded' = <<[query |-> q, before |-> searchHistory]>>
  /\ UNCHANGED <<historyIndex, historyFile, storeVars>>
  /\ UNCHANGED <<initialResults, fuzzyQuery, fuzzyFilteredResults, walked, fileMaxResults,
                 fileQuery, fileSearchResults, walks, gitignore, relativePath,
                 ignorePatterns, ignored, walkVars>>
  /\ UNCHANGED <<svcVars, hostVars, searchInput, searchTimeout, searchConfig, displayVars,
                 ctxVars>>

\* onDidReceiveMessage: 'saveHistory' runs handleSaveHistory
HandleSaveHistory ==
  /\ toHost # <<>>
  /\ Head(toHost).command = "saveHistory"
  /\ toHost' = Tail(toHost)
  /\ historyFile' = <<Head(toHost).history>>
  /\ UNCHANGED <<searchHistory, historyIndex, lastAdded, storeVars>>
  /\ UNCHANGED <<initialResults, fuzzyQuery, fuzzyFilteredResults, walked, fileMaxResults,
                 fileQuery, fileSearchResults, walks, gitignore, relativePath,
                 ignorePatterns, ignored, walkVars>>
  /\ UNCHANGED <<svcVars, hostVars, searchInput, searchTimeout, searchConfig, displayVars,
                 ctxVars>>

HistoryNext ==
  \/ \E q \in HistoryQueries : AddToHistory(q)
  \/ HandleSaveHistory

HistorySpec == HistoryInit /\ [][HistoryNext]_vars

(***************************************************************************)
(* NavSpec: the history of the webview under Enter, the two navigation     *)
(* commands, typing, and the historyLoaded and historyCleared messages.    *)
(***************************************************************************)
\* history[index] of JavaScript: undefined, here the empty string, outside
\* the array
ArrayAt(history, index) ==
  IF index \in 0..(Len(history) - 1) THEN history[index + 1] ELSE <<>>

NavUnchanged ==
  /\ UNCHANGED <<historyFile, storeVars>>
  /\ UNCHANGED <<initialResults, fuzzyQuery, fuzzyFilteredResults, walked, fileMaxResults,
                 fileQuery, fileSearchResults, walks, gitignore, relativePath,
                 ignorePatterns, ignored, walkVars>>
  /\ UNCHANGED <<svcVars, hostVars, searchTimeout, searchConfig, displayVars, ctxVars>>

CanNavigate ==
  Len(searches) + RequestsPending < MaxNavSearches /\ Len(toHost) < MaxQueue

\* the step to index: the entry is read into the input and searched
ReadHistory(index) ==
  /\ historyIndex' = index
  /\ searchInput' = ArrayAt(searchHistory, index)
  /\ toHost' = Append(toHost, SearchMessage(ArrayAt(searchHistory, index)))

\* a navigateToPreviousHistory that steps back whatever the length of the
\* history
navigateToPreviousHistoryUnbounded ==
  /\ CanNavigate
  /\ searchHistory # <<>>
  /\ ReadHistory(historyIndex + 1)
  /\ UNCHANGED <<searchHistory, lastAdded>>
  /\ NavUnchanged

navigateToPreviousHistory ==
  /\ CanNavigate
  /\ searchHistory # <<>>
  /\ IF historyIndex = -1 /\ Trim(searchInput) = searchHistory[1]
     THEN IF Len(searchHistory) > 1
          THEN ReadHistory(1)
          ELSE UNCHANGED <<historyIndex, searchInput, toHost>>
     ELSE IF historyIndex < Len(searchHistory) - 1
          THEN ReadHistory(historyIndex + 1)
          ELSE UNCHANGED <<historyIndex, searchInput, toHost>>
  /\ UNCHANGED <<searchHistory, lastAdded>>
  /\ NavUnchanged

navigateToNextHistory ==
  /\ CanNavigate
  /\ IF historyIndex > 1 THEN ReadHistory(historyIndex - 1)
     ELSE IF historyIndex = 1 THEN ReadHistory(0)
     ELSE IF historyIndex = 0
     THEN /\ historyIndex' = -1
          /\ searchInput' = <<>>
          /\ toHost' = Append(toHost, SearchMessage(<<>>))
     ELSE UNCHANGED <<historyIndex, searchInput, toHost>>
  /\ UNCHANGED <<searchHistory, lastAdded>>
  /\ NavUnchanged

\* the keydown listener on Enter; no result is there to select
EnterKey ==
  /\ Len(toHost) < MaxQueue
  /\ wvResults = <<>>
  /\ LET q == Trim(searchInput)
     IN  IF q # <<>>
         THEN /\ searchHistory' = addToHistory(searchHistory, q)
              /\ historyIndex' = -1
              /\ toHost' = Append(toHost, [command |-> "saveHistory",
                                           history |-> searchHistory'])
              /\ lastAdded' = <<[query |-> q, before |-> searchHistory]>>
         ELSE UNCHANGED <<searchHistory, historyIndex, toHost, lastAdded>>
  /\ UNCHANGED searchInput
  /\ NavUnchanged

\* the message listener on historyLoaded
HistoryLoaded(history) ==
  /\ CanNavigate
  /\ searchHistory' = history
  /\ historyIndex' = -1
  /\ IF Len(history) > 0 /\ searchInput = <<>>
     THEN /\ searchInput' = history[1]
          /\ toHost' = Append(toHost, SearchMessage(history[1]))
     ELSE UNCHANGED <<searchInput, toHost>>
  /\ UNCHANGED lastAdded
  /\ NavUnchanged

\* the message listener on historyCleared
HistoryCleared ==
  /\ CanNavigate
  /\ searchHistory' = <<>>
  /\ historyIndex' = -1
  /\ searchInput' = <<>>
  /\ toHost' = Append(toHost, SearchMessage(<<>>))
  /\ UNCHANGED lastAdded
  /\ NavUnchanged

\* what is typed, and the histories of trimmed queries
NavQueries == {<<>>, <<"a">>, <<"a", " ">>, <<"a", "a">>}
NavHistories == {h \in SavedHistories : \A i \in 1..Len(h) : Trim(h[i]) = h[i]}

NavInit ==
  /\ files = <<>>
  /\ config = getDefaultConfig
  /\ maxResults = FolderDisplayLimit
  /\ maxFileSize = MaxContentLen
  /\ isFile = FALSE
  /\ searchType = "folder"
  /\ ServiceIdle
  /\ PanelInit
  /\ maximizedLayout = FALSE
  /\ loaded = <<>>
  /\ FolderIdle
  /\ StoreIdle
  /\ searchHistory \in NavHistories
  /\ historyIndex = -1
  /\ historyFile = IF searchHistory = <<>> THEN NoHistoryFile ELSE <<searchHistory>>
  /\ lastAdded = <<>>

NavNext ==
  \/ \E q \in NavQueries : SearchInput(q)
  \/ EnterKey
  \/ navigateToPreviousHistory
  \/ navigateToNextHistory
  \/ \E history \in NavHistories : HistoryLoaded(history)
  \/ HistoryCleared
  \/ OnDidReceiveMessage
  \/ HandleSaveHistory

NavSpec == NavInit /\ [][NavNext]_vars

(***************************************************************************)
(* ConfigSpec: one ConfigService after another is constructed on the       *)
(* configuration file and has its options updated.                         *)
(***************************************************************************)
ConfigInit ==
  /\ files = <<>>
  /\ configFile \in {NoConfigFile} \cup {<<c>> : c \in Configs}
  /\ config = loadConfig(configFile)
  /\ writable \in BOOLEAN
  /\ lastSet = [options |-> config, updates |-> <<>>]
  /\ maxResults = FolderDisplayLimit
  /\ maxFileSize = MaxContentLen
  /\ isFile = FALSE
  /\ searchType = "folder"
  /\ ServiceIdle
  /\ PanelInit
  /\ maximizedLayout = FALSE
  /\ loaded = <<>>
  /\ FolderIdle
  /\ HistoryIdle

\* a call of ConfigService.updateTextSearchConfig
UpdateTextSearchConfig(updates) ==
  /\ updateTextSearchConfig(updates)
  /\ UNCHANGED <<files, maxResults, maxFileSize, query, isFile, pc, batchStart,
                 batchResults, results, returned, reads>>
  /\ UNCHANGED <<initialResults, fuzzyQuery, fuzzyFilteredResults, walked, fileMaxResults,
                 fileQuery, fileSearchResults, walks, gitignore, relativePath,
                 ignorePatterns, ignored, walkVars, historyVars>>
  /\ UNCHANGED <<hostVars, webviewVars, ctxVars>>

\* new ConfigService(): the constructor loads the configuration
NewConfigService ==
  /\ config' = loadConfig(configFile)
  /\ UNCHANGED <<files, maxResults, maxFileSize, query, isFile, pc, batchStart,
                 batchResults, results, returned, reads>>
  /\ UNCHANGED <<hostVars, webviewVars, rankVars, ctxVars>>

ConfigNext ==
  \/ \E updates \in Updates : UpdateTextSearchConfig(updates)
  \/ NewConfigService

ConfigSpec == ConfigInit /\ [][ConfigNext]_vars

(***************************************************************************)
(* ToggleSpec: a text search panel from the moment its webview script has  *)
(* run: the configuration is loaded and the toggle buttons are clicked.    *)
(***************************************************************************)
\* the webview has taken searchConfig from initialData and has posted
\* loadConfig
ToggleInit ==
  /\ files = <<>>
  /\ config \in Configs
  /\ maxResults = FolderDisplayLimit
  /\ maxFileSize = MaxContentLen
  /\ isFile = FALSE
  /\ searchType = "folder"
  /\ ServiceIdle
  /\ PanelOpened
  /\ toHost = <<[command |-> "loadConfig"]>>
  /\ searchConfig = [caseSensitive |-> config.caseSensitive, wholeWord |-> config.wholeWord]
  /\ maximizedLayout = FALSE
  /\ loaded = <<>>
  /\ RankIdle

\* onDidReceiveMessage: 'loadConfig' runs handleLoadConfig
HandleLoadConfig ==
  /\ toHost # <<>>
  /\ Head(toHost).command = "loadConfig"
  /\ toHost' = Tail(toHost)
  /\ toWebview' = Append(toWebview, [command |-> "configLoaded", config |-> config])
  /\ UNCHANGED <<svcVars, searchType, currentSearchQuery, filteredResults, searches>>
  /\ UNCHANGED <<searchInput, searchTimeout, searchConfig, displayVars, rankVars, ctxVars>>

\* the webview's message listener on a configLoaded message
WebviewConfigLoaded ==
  /\ toWebview # <<>>
  /\ Head(toWebview).command = "configLoaded"
  /\ toWebview' = Tail(toWebview)
  /\ searchConfig' = configLoaded(Head(toWebview).config)
  /\ UNCHANGED <<svcVars, searchType, currentSearchQuery, filteredResults, searches>>
  /\ UNCHANGED <<toHost, searchInput, searchTimeout, displayVars, rankVars, ctxVars>>

ToggleNext ==
  \/ HandleLoadConfig
  \/ WebviewConfigLoaded
  \/ CaseSensitiveToggle
  \/ WholeWordToggle
  \/ OnDidReceiveMessage

ToggleSpec == ToggleInit /\ [][ToggleNext]_vars

(***************************************************************************)
(* OptionsSpec: a folder search during which the options of the engine are *)
(* updated (handleUpdateConfig calls updateTextSearchConfig).              *)
(***************************************************************************)
OptionContents == {<<"a">>, <<"A">>, <<"a", " ", "A">>}

OptionFiles ==
  UNION {[1..n -> OptionContents] : n \in 1..MaxFiles}

OptionsInit ==
  /\ \E cs \in OptionFiles :
       files = [i \in 1..Len(cs) |->
                  [name |-> FolderFiles[i], content |-> cs[i], readable |-> TRUE]]
  /\ config \in Configs
  /\ maxResults = MaxFiles * PerFileCap
  /\ maxFileSize = MaxFolderContentLen
  /\ isFile = FALSE
  /\ searchType = "folder"
  /\ ServiceIdle
  /\ PanelInit
  /\ maximizedLayout = FALSE
  /\ loaded = <<>>
  /\ RankIdle

\* handleUpdateConfig while the search is in flight
HandleUpdateConfig(updates) ==
  /\ pc = "batch"
  /\ updates # <<>>
  /\ updateTextSearchConfig(updates)
  /\ UNCHANGED <<files, maxResults, maxFileSize, query, isFile, pc, batchStart,
                 batchResults, results, returned, reads>>
  /\ UNCHANGED <<initialResults, fuzzyQuery, fuzzyFilteredResults, walked, fileMaxResults,
                 fileQuery, fileSearchResults, walks, gitignore, relativePath,
                 ignorePatterns, ignored, walkVars, historyVars>>
  /\ UNCHANGED <<hostVars, webviewVars, ctxVars>>

OptionsNext ==
  \/ SearchWithQuery(<<"a">>, FALSE) /\ UNCHANGED <<hostVars, webviewVars, rankVars, ctxVars>>
  \/ \E k \in 1..MaxFiles : BatchFileDone(k)
  \/ \E updates \in Updates : HandleUpdateConfig(updates)

OptionsSpec == OptionsInit /\ [][OptionsNext]_vars

(***************************************************************************)
(* CapSpec: a search of a file or of a folder whose files hold more        *)
(* matches than the scan of one file records, for a pattern that compiles  *)
(* and for one that is searched literally.                                  *)
(***************************************************************************)
CapContents ==
  {[i \in 1..(PerFileCap + 1) |-> "a"], [i \in 1..(PerFileCap + 1) |-> "["], <<"a">>}

CapFiles == UNION {[1..n -> CapContents] : n \in 1..MaxFiles}

CapQueries == {<<"a">>, <<"[">>}

CapInit ==
  /\ searchType \in {"file", "folder"}
  /\ \E cs \in CapFiles :
       files = [i \in 1..Len(cs) |->
                  [name |-> FolderFiles[i], content |-> cs[i], readable |-> TRUE]]
  /\ config = getDefaultConfig
  /\ maxResults \in {PerFileCap - 1, PerFileCap + 1, 2 * PerFileCap + 1}
  /\ maxFileSize = PerFileCap + 1
  /\ isFile = (searchType = "file")
  /\ ServiceIdle
  /\ PanelInit
  /\ maximizedLayout = FALSE
  /\ loaded = <<>>
  /\ RankIdle

CapNext ==
  \/ \E q \in CapQueries :
       SearchWithQuery(q, searchType = "file")
         /\ UNCHANGED <<hostVars, webviewVars, rankVars, ctxVars>>
  \/ FileSearchDone
  \/ \E k \in 1..MaxFiles : BatchFileDone(k)

CapSpec == CapInit /\ [][CapNext]_vars

(***************************************************************************)
(* LoopSpec: searchInContent on the content of one file, one iteration of  *)
(* its while loop (or of the one of searchLiteral) at a time.              *)
(***************************************************************************)
LoopInit ==
  /\ \E c \in Contents : files = <<[name |-> "f1", content |-> c, readable |-> TRUE]>>
  /\ config \in Configs
  /\ maxResults = PerFileCap
  /\ maxFileSize = MaxContentLen
  /\ isFile = TRUE
  /\ searchType = "file"
  /\ ServiceIdle
  /\ PanelInit
  /\ maximizedLayout = FALSE
  /\ loaded = <<>>
  /\ RankIdle

\* a scan that leaves lastIndex where exec has put it
AdvanceNever(match) == match.end

\* the guard against zero-width matches: lastIndex after the iteration
Advance(match) == IF match.index = match.end THEN match.end + 1 ELSE match.end

\* the for loop goes to the next line, or ends with the last one
NextLine ==
  IF scan.lineIndex + 1 >= Len(scan.lines)
  THEN [scan EXCEPT !.status = "done", !.lastMatch = <<>>]
  ELSE [scan EXCEPT !.lineIndex = @ + 1, !.lastIndex = 0, !.lastMatch = <<>>]

LoopUnchanged ==
  /\ UNCHANGED <<unreadableDirs, unstatable, walkMode, discovered>>
  /\ UNCHANGED <<initialResults, fuzzyQuery, fuzzyFilteredResults, walked, fileMaxResults,
                 fileQuery, fileSearchResults, walks, gitignore, relativePath,
                 ignorePatterns, ignored, prefVars>>
  /\ UNCHANGED <<svcVars, hostVars, webviewVars, ctxVars>>

\* searchInContent up to its loop: the content is split and the regular
\* expression made; when new RegExp throws, searchLiteral takes over
SearchInContent(pattern) ==
  /\ scan.status = "idle"
  /\ scan' = [NoScan EXCEPT !.status = "scanning",
                            !.literal = ~RegexCompiles(RegexSource(pattern, config)),
                            !.lines = Split(files[1].content),
                            !.pattern = pattern]
  /\ LoopUnchanged

\* one evaluation of the condition of the while loop of searchInContent,
\* with the body when exec has found a match
RegexIteration ==
  /\ scan.status = "scanning"
  /\ ~scan.literal
  /\ LET line == scan.lines[scan.lineIndex + 1]
         match == Exec(Compile(RegexSource(scan.pattern, config)), line, scan.lastIndex,
                       ~config.caseSensitive)
         pushed == Append(scan.results, MakeResult(files[1].name, scan.lineIndex,
                                                   match.index, line))
     IN  IF match.index = -1 THEN scan' = NextLine
         ELSE scan' = [scan EXCEPT !.results = pushed,
                                   !.lastIndex = Advance(match),
                                   !.lastMatch = <<match>>,
                                   !.zeroWidth = IF match.index = match.end THEN @ + 1 ELSE @,
                                   !.status = IF Len(pushed) >= PerFileCap THEN "done" ELSE @]
  /\ LoopUnchanged

\* one iteration of the while loop of searchLiteral
LiteralIteration ==
  /\ scan.status = "scanning"
  /\ scan.literal
  /\ LET line == scan.lines[scan.lineIndex + 1]
         searchPattern == IF config.caseSensitive THEN scan.pattern
                          ELSE ToLowerCase(scan.pattern)
         searchLine == IF config.caseSensitive THEN line ELSE ToLowerCase(line)
         matchIndex == IndexOf(searchLine, searchPattern, scan.lastIndex)
         match == [index |-> matchIndex, end |-> matchIndex + Len(searchPattern)]
         pushed == Append(scan.results, MakeResult(files[1].name, scan.lineIndex,
                                                   matchIndex, line))
     IN  IF matchIndex = -1 THEN scan' = NextLine
         ELSE IF config.wholeWord /\ ~IsWholeWord(searchLine, matchIndex, Len(searchPattern))
         THEN scan' = [scan EXCEPT !.lastIndex = matchIndex + 1, !.lastMatch = <<match>>]
         ELSE scan' = [scan EXCEPT !.results = pushed,
                                   !.lastIndex = matchIndex + 1,
                                   !.lastMatch = <<match>>,
                                   !.status = IF Len(pushed) >= PerFileCap THEN "done" ELSE @]
  /\ LoopUnchanged

LoopNext ==
  \/ \E pattern \in Patterns \ {<<>>} : SearchInContent(pattern)
  \/ RegexIteration
  \/ LiteralIteration

\* the event loop runs a scan that has been started on to its end
LoopSpec == LoopInit /\ [][LoopNext]_vars /\ WF_vars(LoopNext)

(***************************************************************************)
(* Properties of the scan of one file (ScanSpec).                          *)
(***************************************************************************)
ScanDone == pc = "done" /\ isFile /\ Trim(query) # <<>>

ScannedLines == Split(files[1].content)

Positions(rs) == {<<rs[i].line, rs[i].column>> : i \in 1..Len(rs)}

\* position p comes before position q in (line, column) order
Before(p, q) == p[1] < q[1] \/ (p[1] = q[1] /\ p[2] < q[2])

Ascending(rs) ==
  \A i, j \in 1..Len(rs) :
    i < j => Before(<<rs[i].line, rs[i].column>>, <<rs[j].line, rs[j].column>>)

FallsBack == ~RegexCompiles(RegexSource(query, config))

\* the characters of line at columns col .. col + Len(pat) - 1 are those of pat,
\* compared as the case-sensitive option says
LiteralAt(line, col, pat) ==
  /\ col + Len(pat) - 1 <= Len(line)
  /\ \A k \in 1..Len(pat) :
       IF config.caseSensitive THEN line[col + k - 1] = pat[k]
       ELSE LowerChar(line[col + k - 1]) = LowerChar(pat[k])

\* the occurrence of pat at col is delimited by non-word characters or line ends
Delimited(line, col, pat) ==
  /\ col = 1 \/ ~IsWordChar(line[col - 1])
  /\ col + Len(pat) - 1 = Len(line) \/ ~IsWordChar(line[col + Len(pat)])

\* the (line, column) positions of the literal occurrences of the query
LiteralOccurrences ==
  {p \in (1..Len(ScannedLines)) \X (1..MaxContentLen) :
     LiteralAt(ScannedLines[p[1]], p[2], query)}

WholeWordOccurrences ==
  {p \in LiteralOccurrences : Delimited(ScannedLines[p[1]], p[2], query)}

\* rs holds, in ascending order, the first PerFileCap positions of occ, each
\* as a result of the usual shape
FirstOf(rs, occ) ==
  /\ Ascending(rs)
  /\ Positions(rs) \subseteq occ
  /\ Len(rs) = Min(Cardinality(occ), PerFileCap)
  /\ \A p \in occ : \A q \in Positions(rs) : Before(p, q) => p \in Positions(rs)
  /\ \A i \in 1..Len(rs) :
       rs[i] = [file |-> files[1].name, line |-> rs[i].line, column |-> rs[i].column,
                text |-> Trim(ScannedLines[rs[i].line]),
                context |-> <<Trim(ScannedLines[rs[i].line])>>]

\* C5 (as stated): a pattern that does not compile yields the literal
\* occurrences of the pattern (up to the per-file cap), whatever the options
C5_LiteralFallbackAllOccurrences ==
  (ScanDone /\ FallsBack) => FirstOf(returned, LiteralOccurrences)

\* C5 (amended): a pattern that does not compile yields, without an error,
\* the first PerFileCap literal occurrences of the pattern under the
\* case-sensitivity option; with whole-word set, only the occurrences
\* delimited by non-word characters or line ends count
C5_LiteralFallback ==
  (ScanDone /\ FallsBack) =>
    FirstOf(returned, IF config.wholeWord THEN WholeWordOccurrences ELSE LiteralOccurrences)

\* scenario D: the pattern "[" on a content holding "[" gives one match
C5_Witness ==
  /\ ScanDone
  /\ query = <<"[">>
  /\ files[1].content = <<"a", " ", "[">>
  /\ Len(returned) = 1
  /\ returned[1].column = 3

\* C6: every result of a file scan names the 1-based line and the 1-based
\* column at which a match starts, and the results are in ascending
\* (line, column) order
C6_LineColumn ==
  ScanDone =>
    /\ \A i \in 1..Len(returned) :
         LET r == returned[i]
         IN  /\ r.line \in 1..Len(ScannedLines)
             /\ r.column \in 1..(Len(ScannedLines[r.line]) + 1)
             /\ r.text = Trim(ScannedLines[r.line])
             /\ IF FallsBack
                THEN LiteralAt(ScannedLines[r.line], r.column, query)
                ELSE MatchAt(Compile(RegexSource(query, config)), ScannedLines[r.line],
                             r.column - 1, ~config.caseSensitive) # -1
    /\ Ascending(returned)

\* scenario A, scaled: a match on the second line, behind a leading blank
C6_Witness ==
  /\ ScanDone
  /\ files[1].content = <<NL, "A", "a">>
  /\ query = <<"a">>
  /\ ~config.caseSensitive
  /\ Len(returned) = 2
  /\ returned[1].line = 2 /\ returned[1].column = 1
  /\ returned[2].line = 2 /\ returned[2].column = 2

(***************************************************************************)
(* Properties of one search of the panel (FolderSpec).                     *)
(***************************************************************************)
\* the search has returned
Returned == pc \in {"done", "shown"}

\* the results have been posted and the webview has shown them
Displayed == pc = "shown" /\ toWebview = <<>>

OnlyWhitespace(q) == \A i \in 1..Len(q) : q[i] \in {" ", NL}

\* the number of matches of q that exist in the files from index i on: no
\* cap on the matches of one file
RECURSIVE ExistingMatches(_, _)
ExistingMatches(q, i) ==
  IF i > Len(files) THEN 0
  ELSE Len(Scan(files[i].content, q, files[i].name, config, Len(files[i].content) + 2))
         + ExistingMatches(q, i + 1)

CapReached ==
  LET searched == IF isFile THEN {1} ELSE 1..Len(files)
  IN  \/ ~isFile /\ Len(PerFileResults(query, 1)) >= maxResults
      \/ \E i \in searched :
           \/ Len(searchInFile(files[i], query)) >= PerFileCap
           \/ Len(searchInFile(files[i], query)) >= maxResults

\* C4 as stated: the count shown carries the "+" suffix exactly when the
\* scan stopped because a cap was reached (the per-file cap or the
\* configured maxResults), and is exact when the input was exhausted.
C4_SuffixIffCapReached ==
  (Displayed /\ ~OnlyWhitespace(query))
    => (resultCount.suffix = "+" <=> CapReached)

\* C7: for a non-blank pattern searchInFolder returns the first maxResults
\* elements of the concatenation, in discovery order, of every file's
\* searchInFile results, whatever the order in which the reads of a batch
\* complete.
C7_DiscoveryOrder ==
  (Returned /\ ~isFile /\ ~OnlyWhitespace(query))
    => returned = SubSeq(PerFileResults(query, 1), 1,
                         Min(maxResults, Len(PerFileResults(query, 1))))

C7_Witness ==
  /\ pc = "done" /\ ~isFile
  /\ Len(files) = 3
  /\ batchStart = BatchSize
  /\ \A i \in 1..Len(returned) : returned[i].file = files[i].name
  /\ Len(returned) = 3

\* C8: searchWithQuery with an empty or whitespace-only query returns an
\* empty list, for a file and for a folder target, and no file is read.
C8_BlankQuery ==
  (pc # "idle" /\ OnlyWhitespace(query))
    => (Returned /\ returned = <<>> /\ reads = 0 /\ batchResults = <<>>)

C8_Witness ==
  /\ pc = "done"
  /\ query = <<" ">>
  /\ Len(files) >= 1
  /\ returned = <<>>
  /\ reads = 0

C8_WitnessFile ==
  C8_Witness /\ isFile /\ files[1].content = <<"a">>

(***************************************************************************)
(* Properties of overlapping searches (PanelSpec).                         *)
(***************************************************************************)
\* search i has been superseded: handleSearch has been called again since
Superseded(i) == i < Len(searches)

\* C1 as stated: once a later search request has been issued to the panel,
\* no updateResults message is posted for the earlier search, in whatever
\* order the searches complete.
C1_NoSupersededResultsPosted ==
  [][\A i \in DOMAIN searches :
       (~searches[i].resolved /\ searches'[i].resolved /\ Superseded(i))
         => toWebview' = toWebview]_vars

\* every request has been handled, every search has resolved and every
\* message has been delivered
Settled ==
  /\ searches # <<>>
  /\ toHost = <<>>
  /\ ~searchTimeout.set
  /\ \A i \in DOMAIN searches : searches[i].resolved
  /\ toWebview = <<>>

\* C2 as stated: once every search in flight has completed, filteredResults
\* and the results the webview shows are those of the most recently issued
\* query.
C2_LatestQueryWins ==
  Settled => /\ filteredResults = searches[Len(searches)].result
             /\ wvResults = searches[Len(searches)].result

(***************************************************************************)
(* Properties of the ranker and of the file search (RankSpec).             *)
(***************************************************************************)
OnlyBlanks(q) == \A i \in 1..Len(q) : q[i] \in {" ", NL}

\* with a blank query the fuzzy panel holds every candidate, in the order of
\* the candidates, with score 0 and no matched index
RankerPassesThrough ==
  OnlyBlanks(fuzzyQuery)
    => /\ Len(fuzzyFilteredResults) = Len(initialResults)
       /\ \A i \in 1..Len(initialResults) :
            /\ fuzzyFilteredResults[i].result = initialResults[i]
            /\ fuzzyFilteredResults[i].score.n = 0
            /\ fuzzyFilteredResults[i].matchedIndices = <<>>

\* C9 as stated: with an empty query the ranker passes every candidate
\* through, in the original order, with score 0 and no matched index, and
\* the name search returns all the candidates in their enumeration order.
C9_EmptyQueryReturnsAll ==
  /\ RankerPassesThrough
  /\ OnlyBlanks(fileQuery) => fileSearchResults = discoverFiles

\* C9, amended: with an empty query the ranker passes every candidate
\* through, in the original order, with score 0 and no matched index; the
\* name search returns the candidates in the order discoverFiles gives them
\* (sorted by name), but only the first maxResults of them.
C9_EmptyQueryPassThrough ==
  /\ RankerPassesThrough
  /\ OnlyBlanks(fileQuery)
       => /\ Len(fileSearchResults) = Min(fileMaxResults, Len(discoverFiles))
          /\ \A i \in 1..Len(fileSearchResults) : fileSearchResults[i] = discoverFiles[i]

C9_Witness ==
  /\ fileQuery = <<" ">>
  /\ Len(walked) = MaxWalked
  /\ walked # discoverFiles
  /\ fileMaxResults < Len(walked)
  /\ Len(fileSearchResults) = fileMaxResults

C9_WitnessRanker ==
  /\ fuzzyQuery = <<" ">>
  /\ Len(initialResults) = MaxCandidates
  /\ initialResults[1].line > initialResults[2].line
  /\ fuzzyFilteredResults[1].result = initialResults[1]

\* the position of a candidate in the input of the ranker
Position(r) == CHOOSE i \in 1..Len(initialResults) : initialResults[i] = r

\* C10 as stated: the output of the ranker is in descending order of score,
\* and candidates of equal score are in the order they have in the input.
C10_TiesInInputOrder ==
  \A p, q \in 1..Len(fuzzyFilteredResults) :
    p < q => LET a == fuzzyFilteredResults[p]
                 b == fuzzyFilteredResults[q]
             IN  /\ ~ScoreLess(a.score, b.score)
                 /\ ScoreEqual(a.score, b.score) => Position(a.result) < Position(b.result)

\* C10, amended: for a non-blank query the output of the ranker is in
\* descending order of score; candidates of equal score are in ascending
\* order of their line number, and candidates equal in both are in the order
\* they have in the input.
C10_TiesByLineThenInputOrder ==
  ~OnlyBlanks(fuzzyQuery)
    => \A p, q \in 1..Len(fuzzyFilteredResults) :
         p < q => LET a == fuzzyFilteredResults[p]
                      b == fuzzyFilteredResults[q]
                  IN  /\ ~ScoreLess(a.score, b.score)
                      /\ ScoreEqual(a.score, b.score) => a.result.line <= b.result.line
                      /\ (ScoreEqual(a.score, b.score) /\ a.result.line = b.result.line)
                           => Position(a.result) < Position(b.result)

C10_Witness ==
  /\ fuzzyQuery = <<"a">>
  /\ Len(fuzzyFilteredResults) = MaxCandidates
  /\ \E p, q \in 1..Len(fuzzyFilteredResults) :
       /\ p < q
       /\ ScoreEqual(fuzzyFilteredResults[p].score, fuzzyFilteredResults[q].score)
       /\ fuzzyFilteredResults[p].result.line < fuzzyFilteredResults[q].result.line
       /\ Position(fuzzyFilteredResults[p].result) > Position(fuzzyFilteredResults[q].result)
  /\ \E p \in 1..Len(fuzzyFilteredResults) - 1 :
       ScoreLess(fuzzyFilteredResults[p + 1].score, fuzzyFilteredResults[p].score)

\* the matched indices of entry m spell query q in the searchable text of its
\* candidate: as many indices as q has characters, strictly increasing,
\* inside the text, the k-th one at a character equal to the k-th character
\* of q up to case
IndicesSpell(m, q) ==
  LET text == getSearchableText(m.result)
      ix == m.matchedIndices
  IN  /\ Len(ix) = Len(q)
      /\ \A k \in 1..Len(ix) :
           /\ 0 <= ix[k] /\ ix[k] < Len(text)
           /\ k > 1 => ix[k - 1] < ix[k]
           /\ LowerChar(text[ix[k] + 1]) = LowerChar(q[k])

\* the characters of q from the k-th on occur in text in order, up to case,
\* at positions from on
RECURSIVE OccursFrom(_, _, _, _)
OccursFrom(q, text, k, from) ==
  \/ k > Len(q)
  \/ \E p \in from..Len(text) :
       /\ LowerChar(text[p]) = LowerChar(q[k])
       /\ OccursFrom(q, text, k + 1, p + 1)

OccursInOrder(q, text) == OccursFrom(q, text, 1, 1)

\* C11 as stated: for every non-empty query, every entry the ranker returns
\* has matched indices that spell the query in the searchable text, and no
\* candidate is returned in which the query characters do not occur in order.
C11_IndicesSpellNonEmptyQuery ==
  fuzzyQuery # <<>>
    => \A p \in 1..Len(fuzzyFilteredResults) :
         /\ IndicesSpell(fuzzyFilteredResults[p], fuzzyQuery)
         /\ OccursInOrder(fuzzyQuery, getSearchableText(fuzzyFilteredResults[p].result))

\* C11, amended: for every query that is not blank (not empty after
\* trimming), every entry the ranker returns has matched indices that spell
\* the query in the searchable text, and no candidate is returned in which
\* the query characters do not occur in order.
C11_IndicesSpellQuery ==
  Trim(fuzzyQuery) # <<>>
    => \A p \in 1..Len(fuzzyFilteredResults) :
         /\ IndicesSpell(fuzzyFilteredResults[p], fuzzyQuery)
         /\ OccursInOrder(fuzzyQuery, getSearchableText(fuzzyFilteredResults[p].result))

\* the query "aa" is matched with a gap, and a candidate without it is left out
C11_Witness ==
  /\ fuzzyQuery = <<"a", "a">>
  /\ Len(fuzzyFilteredResults) > 0
  /\ Len(fuzzyFilteredResults) < Len(initialResults)
  /\ \E p \in 1..Len(fuzzyFilteredResults) :
       LET ix == fuzzyFilteredResults[p].matchedIndices
       IN  Len(ix) = 2 /\ ix[2] > ix[1] + 1

(***************************************************************************)
(* Properties of the ranker on a long line (GapSpec).                      *)
(***************************************************************************)
\* C12 as stated: for a query that is not blank, every candidate whose
\* searchable text contains the characters of the query in order, up to
\* case, is returned with a score above 0, whatever the length of the text
\* and the gaps between the matched characters.
C12_EverySubsequenceReturned ==
  Trim(fuzzyQuery) # <<>>
    => \A i \in 1..Len(initialResults) :
         OccursInOrder(fuzzyQuery, getSearchableText(initialResults[i]))
           => \E p \in 1..Len(fuzzyFilteredResults) :
                /\ fuzzyFilteredResults[p].result = initialResults[i]
                /\ fuzzyFilteredResults[p].score.n > 0

(***************************************************************************)
(* Properties of context loading (LoadSpec).                               *)
(***************************************************************************)
\* the lines lo .. hi of a file, <<>> when hi < lo
LinesFromTo(lines, lo, hi) == [k \in 1..(hi - lo + 1) |-> lines[lo + k - 1]]

\* C13: a context loaded from a readable file for the match at targetLine
\* with context size c is the contiguous lines max(1, targetLine - c) ..
\* min(lineCount, targetLine + c) of the file as it was read: at most 2c + 1
\* lines, and the target line among them whenever it is a line of the file.
C13_ContextWindow ==
  (lastLoad.mode = "text" /\ lastLoad.readable)
    => LET lines == lastLoad.lines
           t == lastLoad.targetLine
           c == lastLoad.contextSize
           lo == Max(1, t - c)
           hi == Min(Len(lines), t + c)
       IN  /\ lastLoad.context = LinesFromTo(lines, lo, hi)
           /\ Len(lastLoad.context) <= 2 * c + 1
           /\ (1 <= t /\ t <= Len(lines))
                => /\ t - lo + 1 \in 1..Len(lastLoad.context)
                   /\ lastLoad.context[t - lo + 1] = lines[t]

\* a window of 2c + 1 lines strictly inside the file
C13_Witness ==
  /\ lastLoad.mode = "text"
  /\ lastLoad.readable
  /\ Len(lastLoad.context) = 2 * lastLoad.contextSize + 1
  /\ lastLoad.targetLine - lastLoad.contextSize > 1
  /\ lastLoad.targetLine + lastLoad.contextSize < Len(lastLoad.lines)
  /\ lastLoad.context[1] # lastLoad.context[2]

\* C14 as stated: once the context of a result has been loaded, a further
\* loadContextForResult on the result reads no file: the context of one
\* result is read at most once, whatever the file and whatever the first
\* load returned.
C14_ContextReadOnce == loaded # <<>> => contextReads <= 1

\* C15 as stated: a context load from a file that cannot be read resolves
\* with one line, the explanatory placeholder, in text search and in file
\* search.
C15_PlaceholderInBothModes ==
  (lastLoad.mode # "none" /\ ~lastLoad.readable)
    => lastLoad.context = <<ErrorLoadingFileContent>>

\* C15, amended: a context load from a file that cannot be read throws no
\* error; in file search it resolves with one line, the explanatory
\* placeholder, and in text search it resolves with no line at all.
C15_PlaceholderInFileSearch ==
  (lastLoad.mode # "none" /\ ~lastLoad.readable)
    => /\ lastLoad.mode = "file" => lastLoad.context = <<ErrorLoadingFileContent>>
       /\ lastLoad.mode = "text" => lastLoad.context = <<>> /\ loaded[1].context = <<>>

C15_Witness ==
  /\ lastLoad.mode = "file"
  /\ ~lastLoad.readable
  /\ contextReads >= 1
  /\ loaded[1].context = <<>>

(***************************************************************************)
(* Properties of a browsed folder search (BrowseSpec).                     *)
(***************************************************************************)
\* the line of a result as it is in its file, trimmed
MatchedLine(result) == Trim(Split(FileAt(result.file).content)[result.line])

C18_UpdateResultsResets ==
  lastEvent.event = "updateResults"
    => /\ wvResults = lastEvent.message.results
       /\ selectedIndex = 0
       /\ displayedResults = InitialBatchSize

C18_Witness ==
  /\ lastEvent.event = "updateResults"
  /\ lastEvent.before.displayed > InitialBatchSize
  /\ lastEvent.before.selected > 0
  /\ lastEvent.before.results # <<>>
  /\ lastEvent.message.results # <<>>
  /\ displayedResults = InitialBatchSize

\* C19: when loadMoreResults has run, LoadMoreBatchSize more results are
\* displayed, at most all of them; the results, the query and the selection
\* are what they were, and nothing has been posted
C19_LoadMoreOnlyAdvances ==
  lastEvent.event = "loadMoreResults"
    => /\ displayedResults =
            Min(lastEvent.before.displayed + LoadMoreBatchSize, Len(wvResults))
       /\ wvResults = lastEvent.before.results
       /\ wvSearchQuery = lastEvent.before.query
       /\ selectedIndex = lastEvent.before.selected
       /\ lastEvent.posts = <<>>

C19_Witness ==
  /\ lastEvent.event = "loadMoreResults"
  /\ lastEvent.before.selected > 0
  /\ displayedResults = Len(wvResults)
  /\ displayedResults < lastEvent.before.displayed + LoadMoreBatchSize

(***************************************************************************)
(* Properties of the file search (RankSpec), continued.                    *)
(***************************************************************************)
\* C17: in a file search the folder is walked once, whatever the number of
\* queries
C17_FolderWalkedOnce == walks <= 1

(***************************************************************************)
(* Properties of the ignore patterns (IgnoreSpec).                         *)
(***************************************************************************)
\* C20: a path the default patterns exclude is excluded with the patterns
\* loadIgnorePatterns resolves with, whatever the .gitignore holds
C20_DefaultsStayExcluded ==
  (ignored # <<>> /\ shouldIgnore(relativePath, excludePatterns)) => ignored[1]

C20_Witness ==
  /\ ignored = <<TRUE>>
  /\ shouldIgnore(relativePath, excludePatterns)
  /\ Len(ignorePatterns) = Len(excludePatterns) + 1
  /\ ignorePatterns[Len(ignorePatterns)] = <<"!">> \o relativePath

\* a path matches a pattern when "**" stands for any run of characters, "*"
\* for any run of characters other than "/", and every other character for
\* itself
RECURSIVE GlobMatches(_, _, _, _)
GlobMatches(pattern, i, path, j) ==
  IF i > Len(pattern) THEN j = Len(path) + 1
  ELSE IF pattern[i] = "*" /\ i < Len(pattern) /\ pattern[i + 1] = "*"
       THEN \E k \in j..(Len(path) + 1) : GlobMatches(pattern, i + 2, path, k)
  ELSE IF pattern[i] = "*"
       THEN \E k \in j..(Len(path) + 1) :
              /\ \A m \in j..(k - 1) : path[m] # "/"
              /\ GlobMatches(pattern, i + 1, path, k)
  ELSE /\ j <= Len(path)
       /\ path[j] = pattern[i]
       /\ GlobMatches(pattern, i + 1, path, j + 1)

\* C21: a path is excluded when one of the patterns, not ending in "/**",
\* matches it with "*" for a run of non-separators and "**" for a run of any
\* characters
C21_StarsMatchAtEveryDepth ==
  ignored # <<>> =>
    \A i \in 1..Len(ignorePatterns) :
      (/\ ~EndsWith(ignorePatterns[i], <<"/", "*", "*">>)
       /\ Includes(ignorePatterns[i], "*")
       /\ GlobMatches(ignorePatterns[i], 1, NormalizeSlashes(relativePath), 1))
        => ignored[1]

(***************************************************************************)
(* Properties of the walk of a folder (WalkSpec).                          *)
(***************************************************************************)
\* the directories the default patterns name
DenylistedDirs ==
  {SubSeq(fileExcludePatterns[i], 1, Len(fileExcludePatterns[i]) - 3) :
     i \in {j \in 1..Len(fileExcludePatterns) :
              EndsWith(fileExcludePatterns[j], <<"/", "*", "*">>)}}

IsLogFile(name) == EndsWith(name, <<".", "l", "o", "g">>)

Discovered == {discovered[k] : k \in 1..Len(discovered)}

\* C22: no file a walk finds is below a directory the default patterns
\* name, at any depth, and none is a log file
C22_NothingDenylistedReported ==
  \A f \in Discovered :
    /\ \A i \in 1..(Len(f) - 1) : f[i] \notin DenylistedDirs
    /\ ~IsLogFile(f[Len(f)])

\* C23: the directory of every file a walk finds is at depth maxDepth at
\* most, the root being at depth 0, and the walk ends with the files of the
\* directories that are not deeper, whatever lies below them
C23_NothingBelowMaxDepth ==
  walkMode # "none" =>
    /\ \A f \in Discovered : Len(f) - 1 <= maxDepth
    /\ (unreadableDirs = {} /\ unstatable = {} /\ ~gitignore.readable)
         => \A f \in WalkFiles :
              (/\ Len(f) - 1 <= maxDepth
               /\ f[Len(f)] = NameTs
               /\ \A i \in 1..(Len(f) - 1) : f[i] = NameA)
                => f \in Discovered

C23_Witness ==
  /\ walkMode = "text"
  /\ unreadableDirs = {}
  /\ \E f \in Discovered : Len(f) - 1 = maxDepth
  /\ \E f \in WalkFiles : Len(f) - 1 > maxDepth /\ isTextFile(f[Len(f)])

\* a file is found by a walk in which nothing fails
FoundWithoutFailure(f, mode) ==
  /\ Len(f) - 1 <= maxDepth
  /\ \A i \in 1..Len(f) :
       /\ ~shouldIgnore(RelativePath(SubSeq(f, 1, i)), ignorePatterns)
       /\ ~IsHidden(f[i])
  /\ mode = "text" => isTextFile(f[Len(f)])

\* the failures on the way from the root to a file
FailureAbove(f, mode) ==
  \/ \E i \in 0..(Len(f) - 1) : SubSeq(f, 1, i) \in unreadableDirs
  \/ mode = "file" /\ \E i \in 1..Len(f) : SubSeq(f, 1, i) \in unstatable

C25_SizeLimitInclusive ==
  (pc = "done" /\ isFile) =>
    /\ Len(files[1].content) = maxFileSize
         => (returned # <<>> <=> Includes(files[1].content, query[1]))
    /\ Len(files[1].content) = maxFileSize + 1 => returned = <<>>

C25_Witness ==
  /\ pc = "done"
  /\ isFile
  /\ maxFileSize > 0
  /\ Len(files[1].content) = maxFileSize
  /\ returned # <<>>

(***************************************************************************)
(* Properties of the search history (HistorySpec).                         *)
(***************************************************************************)
\* C26: after any addToHistory calls on a history without duplicates the
\* history holds at most MAX_HISTORY_SIZE queries, none of them twice and
\* none of them blank, and the query added last is its first entry
C26_HistoryBoundedAndFresh ==
  /\ Len(searchHistory) <= MaxHistorySize
  /\ \A i, j \in 1..Len(searchHistory) : searchHistory[i] = searchHistory[j] => i = j
  /\ \A i \in 1..Len(searchHistory) : Trim(searchHistory[i]) # <<>>
  /\ lastAdded # <<>> => /\ searchHistory # <<>>
                         /\ searchHistory[1] = lastAdded[1].query

\* a query that was the last of a full history has been added again
C26_Witness ==
  /\ lastAdded # <<>>
  /\ Len(lastAdded[1].before) = MaxHistorySize
  /\ ArrayIndexOf(lastAdded[1].before, lastAdded[1].query) = MaxHistorySize - 1
  /\ searchHistory[1] = lastAdded[1].query
  /\ handleLoadHistory(historyFile) = searchHistory

C28_ButtonsShowEngineOptions ==
  (\A i \in 1..Len(toHost) : toHost[i].command # "updateConfig")
    => /\ searchConfig.caseSensitive = config.caseSensitive
       /\ searchConfig.wholeWord = config.wholeWord

(***************************************************************************)
(* Properties of the whole-word option (ScanSpec).                         *)
(***************************************************************************)
\* the end of the match a result of the scan reports, as a 0-based position
MatchEnd(r) ==
  IF FallsBack THEN r.column - 1 + Len(query)
  ELSE MatchAt(Compile(RegexSource(query, config)), ScannedLines[r.line], r.column - 1,
               ~config.caseSensitive)

\* a match may start at pos as a whole word: \b holds there, or no word
\* character comes before it
WordStart(line, pos) ==
  AtWordBoundary(line, pos) \/ pos = 0 \/ ~IsWordChar(line[pos])

\* a match may end at pos as a whole word: \b holds there, or no word
\* character comes after it
WordEnd(line, pos) ==
  AtWordBoundary(line, pos) \/ pos = Len(line) \/ ~IsWordChar(line[pos + 1])

\* C29: with whole-word set every match reported starts and ends at a word
\* boundary, whatever the pattern, alternations included, and whether the
\* pattern compiles or is searched literally
C29_WholeWordMatchesAtBoundaries ==
  (ScanDone /\ config.wholeWord) =>
    \A i \in 1..Len(returned) :
      /\ WordStart(ScannedLines[returned[i].line], returned[i].column - 1)
      /\ WordEnd(ScannedLines[returned[i].line], MatchEnd(returned[i]))

(***************************************************************************)
(* Properties of context loads that a search overtakes (BrowseSpec).       *)
(***************************************************************************)
\* C30: a context load that completes after the ResultSet of the panel has
\* been replaced changes nothing in the new ResultSet: filteredResults stays
\* as it is and no updateContext message is posted for the webview
C30_StaleLoadDiscarded ==
  [][\A i \in DOMAIN loading :
       (LoadContextDone(i) /\ loading[i].resultSet # ResultSets)
         => (filteredResults' = filteredResults /\ toWebview' = toWebview)]_vars

(***************************************************************************)
(* Properties of a folder search whose options change (OptionsSpec).       *)
(***************************************************************************)
\* what searchInFile returns for the file under the options
ScanUnder(options, file, pattern) ==
  IF ~file.readable THEN <<>>
  ELSE IF Len(file.content) > maxFileSize THEN <<>>
  ELSE Take(searchInContent(file.content, pattern, file.name, options), maxResults)

RECURSIVE FolderUnder(_, _, _)
FolderUnder(options, pattern, i) ==
  IF i > Len(files) THEN <<>>
  ELSE ScanUnder(options, files[i], pattern) \o FolderUnder(options, pattern, i + 1)

\* C31: the ResultSet a folder search returns is the one the scan of the
\* folder gives under one option set, whatever updateConfig does meanwhile
C31_OneOptionSetPerScan ==
  (pc = "done" /\ ~isFile /\ ~IsBlankQuery(query)) =>
    \E options \in Configs : returned = Take(FolderUnder(options, query, 1), maxResults)

(***************************************************************************)
(* Properties of the batches of a folder search (FolderSpec).              *)
(***************************************************************************)
\* the files whose searchInFile has been started and has not completed
InFlight ==
  IF pc = "batch" THEN {k \in DOMAIN batchResults : batchResults[k] = Pending}
  ELSE IF pc = "file" THEN {1}
  ELSE {}

\* C32: at most batchSize file reads of a folder search are in flight; they
\* belong to one batch, every file before that batch has been read and no
\* file after it has been started
C32_OneBatchInFlight ==
  (pc = "batch") =>
    /\ Cardinality(InFlight) <= BatchSize
    /\ InFlight \subseteq (batchStart + 1)..(batchStart + BatchSize)
    /\ batchStart % BatchSize = 0
    /\ reads = Min(batchStart + BatchSize, Len(files))

\* the second batch is in flight, after a first batch of batchSize files
C32_Witness ==
  /\ pc = "batch"
  /\ batchStart = BatchSize
  /\ InFlight # {}
  /\ Len(results) > 0

(***************************************************************************)
(* Properties of the result caps (CapSpec).                                *)
(***************************************************************************)
\* the files whose searchInFile has completed in the search in flight
FilesRead ==
  IF pc = "batch" THEN (1..batchStart) \cup ((DOMAIN batchResults) \ InFlight)
  ELSE IF pc = "done" /\ ~isFile THEN 1..reads
  ELSE IF pc = "done" THEN {1}
  ELSE {}

\* C33: the scan of the content of a file records at most the per-file cap
\* of matches, searchInFile returns at most the smaller of that cap and
\* maxResults, a folder search returns at most maxResults results, and no
\* batch is started once the accumulated results have reached maxResults
C33_CapsNeverExceeded ==
  /\ \A i \in FilesRead :
       /\ Len(searchInContent(files[i].content, query, files[i].name, config)) <= PerFileCap
       /\ Len(searchInFile(files[i], query)) <= Min(PerFileCap, maxResults)
  /\ pc = "done" => Len(returned) <= maxResults
  /\ pc = "done" => Len(returned) <= (IF isFile THEN Min(PerFileCap, maxResults) ELSE maxResults)
  /\ (pc = "batch" /\ batchStart > 0) => Len(results) < maxResults
  /\ (pc = "done" /\ ~isFile /\ ~IsBlankQuery(query) /\ reads < Len(files))
       => /\ Len(results) >= maxResults
          /\ reads % BatchSize = 0

\* a folder search has stopped before its last batch, on files each of
\* which held more matches than the scan of one file records
C33_Witness ==
  /\ pc = "done"
  /\ ~isFile
  /\ reads < Len(files)
  /\ Len(returned) = maxResults
  /\ maxResults > PerFileCap
  /\ \A i \in 1..reads : Len(searchInFile(files[i], query)) = PerFileCap

(***************************************************************************)
(* Properties of the loops of the scan (LoopSpec).                         *)
(***************************************************************************)
\* after a match the position on the line is behind the start of the
\* match, and one behind its end when the match was empty
ScanAdvances ==
  (scan.status = "scanning" /\ scan.lastMatch # <<>>) =>
    /\ scan.lastIndex > scan.lastMatch[1].index
    /\ scan.lastMatch[1].index = scan.lastMatch[1].end
         => scan.lastIndex = scan.lastMatch[1].end + 1

\* the scan that has ended has found what searchInContent returns
ScanEnded ==
  scan.status = "done" =>
    scan.results = searchInContent(files[1].content, scan.pattern, files[1].name, config)

\* C34: the scan of a file terminates for every pattern and content: after
\* every match the position on the line has advanced, by one when the match
\* was empty, and the scan comes to its end
C34_ScanTerminates ==
  /\ [](ScanAdvances /\ ScanEnded)
  /\ <>(scan.status = "done")

\* a scan of a pattern that compiles has ended after an empty match that
\* was not its last match
C34_Witness ==
  /\ scan.status = "done"
  /\ ~scan.literal
  /\ scan.zeroWidth > 0
  /\ Len(scan.results) > scan.zeroWidth

(***************************************************************************)
(* Properties of the matches on one line (ScanSpec).                       *)
(***************************************************************************)
\* C35: the matches reported for one line never overlap: of two results on
\* the same line the earlier ends before the later starts, for the scan
\* with the regular expression and for the literal fallback scan
C35_MatchesDisjoint ==
  ScanDone =>
    \A i, j \in 1..Len(returned) :
      (i < j /\ returned[i].line = returned[j].line)
        => MatchEnd(returned[i]) <= returned[j].column - 1

(***************************************************************************)
(* Properties of the messages of overlapping searches (PanelSpec).         *)
(***************************************************************************)
\* C36: every updateResults message the host posts carries as searchQuery
\* the query of the search whose results are in that message, also when
\* several searches overlap
C36_MessageCarriesItsQuery ==
  [][\A i \in 1..MaxSearches :
       SearchResolved(i) => toWebview'[Len(toWebview')].searchQuery = searches[i].query]_vars

(***************************************************************************)
(* Properties of the selection among the rendered results (SelectSpec).    *)
(***************************************************************************)
\* C37: whenever the result list is not empty, selectedIndex is an index of
\* it and smaller than the number of rendered items, after any sequence of
\* ArrowUp, ArrowDown, loadMore, click and updateResults events
C37_SelectionIsRendered ==
  wvResults # <<>> =>
    /\ selectedIndex >= 0
    /\ selectedIndex < Len(wvResults)
    /\ selectedIndex < ResultsToShow

\* ArrowDown has moved the selection to a result that it made the list
\* show, or a click has selected a result other than the first
C37_Witness ==
  /\ wvResults # <<>>
  /\ \/ /\ lastEvent.event = "ArrowDown"
        /\ selectedIndex >= lastEvent.before.displayed
        /\ displayedResults > lastEvent.before.displayed
     \/ /\ lastEvent.event = "click"
        /\ selectedIndex > 0
        /\ displayedResults < Len(wvResults)

(***************************************************************************)
(* Properties of the rank of exact matches (ExactSpec).                    *)
(***************************************************************************)
\* the searchable text of the candidate holds the query as a substring
HoldsExactly(match) ==
  IndexOf(getSearchableText(match.result), ToLowerCase(fuzzyQuery), 0) # -1

\* C38: for every non-empty query of any length a candidate whose searchable
\* text holds the query as a contiguous substring has a strictly higher
\* score than every candidate that matches the query only non-contiguously
C38_ExactOutranksScattered ==
  Trim(fuzzyQuery) # <<>> =>
    \A i, j \in 1..Len(fuzzyFilteredResults) :
      (HoldsExactly(fuzzyFilteredResults[i]) /\ ~HoldsExactly(fuzzyFilteredResults[j]))
        => ScoreLess(fuzzyFilteredResults[j].score, fuzzyFilteredResults[i].score)

(***************************************************************************)
(* Properties of the history cursor (NavSpec).                             *)
(***************************************************************************)
\* C39: after any sequence of Enter, historyPrevious, historyNext,
\* historyLoaded and historyCleared events the cursor satisfies
\* -1 <= historyIndex < searchHistory.length, and the entry a navigation
\* step has read into the input is the entry of the history at the cursor
C39_CursorInHistory ==
  /\ -1 <= historyIndex
  /\ historyIndex < Len(searchHistory)
  /\ historyIndex >= 0 => searchHistory[historyIndex + 1] # <<>>

\* the cursor is at the last entry of a full history
C39_Witness ==
  /\ Len(searchHistory) = MaxHistorySize
  /\ historyIndex = Len(searchHistory) - 1
  /\ searchInput = searchHistory[historyIndex + 1]

(***************************************************************************)
(* Properties of the context panel after a load (LineSpec).                *)
(***************************************************************************)
\* updateContext shows 'Loading context...' for the result
ContextLoading(result) ==
  Len(result.context) = 1 /\ result.context[1] = Trim(result.text)

\* C40: once the response to the loadContext request of the selected result
\* has arrived, the context panel has left the 'Loading context...' state
\* and no second request is sent, for every file, one of a single line
\* included
C40_LoadedContextIsShown ==
  (/\ lastEvent.event = "updateContext"
   /\ lastEvent.message.index = selectedIndex
   /\ selectedIndex < Len(wvResults))
    => /\ ~ContextLoading(wvResults[selectedIndex + 1])
       /\ lastEvent.posts = <<>>

====
